---- MODULE Spec2Model ----
(***************************************************************************)
(* A model of src/src/zlib_ng/zlib_ngmodule.c: the one-shot compress and   *)
(* decompress functions, the Compress / Decompress / ZlibDecompressor      *)
(* sessions, the GzipReader state machine and the per-instance locks.      *)
(*                                                                         *)
(* The raw codec (zlib-ng's deflate / inflate / crc32) is an external      *)
(* library.  It is modelled by a small run-length codec that keeps the     *)
(* call contract the wrapper code relies on: a session state, next_in /    *)
(* avail_in / next_out / avail_out cursors, the flush modes and the        *)
(* status codes.  Sizes that are 16 KiB or 2^32 in the source are scaled   *)
(* down to a few bytes; each scaled size is a named bound.                 *)
(***************************************************************************)
EXTENDS Integers, Sequences, FiniteSets, TLC

(***************************************************************************)
(* Bounds of the model.                                                    *)
(***************************************************************************)
\* Longest payload (decompressed bytes) drawn for the one-shot functions.
MaxPayload == 4
\* UINT32_MAX of the source (the codec's 32-bit avail_in / avail_out width),
\* scaled down so that inputs longer than one input window occur.
UINT32_MAX == 3
\* DEF_BUF_SIZE of the source (16*1024), scaled down so that the output
\* buffer has to grow.
DEF_BUF_SIZE == 2

(***************************************************************************)
(* Program constants.                                                      *)
(***************************************************************************)
NULL == -1
\* PY_SSIZE_T_MAX as on a build with a 32-bit Py_ssize_t.
PY_SSIZE_T_MAX == 2147483647
\* The codec's flush modes and status codes, by name.
Z_NO_FLUSH == "Z_NO_FLUSH"
Z_SYNC_FLUSH == "Z_SYNC_FLUSH"
Z_FINISH == "Z_FINISH"
Z_OK == "Z_OK"
Z_STREAM_END == "Z_STREAM_END"
Z_NEED_DICT == "Z_NEED_DICT"
Z_STREAM_ERROR == "Z_STREAM_ERROR"
Z_DATA_ERROR == "Z_DATA_ERROR"
Z_MEM_ERROR == "Z_MEM_ERROR"
Z_BUF_ERROR == "Z_BUF_ERROR"
MAX_WBITS == 15

(***************************************************************************)
(* Sequences of bytes.                                                     *)
(***************************************************************************)
Py_MIN(a, b) == IF a < b THEN a ELSE b

Take(s, n) == SubSeq(s, 1, Py_MIN(n, Len(s)))

Drop(s, n) == SubSeq(s, n + 1, Len(s))

\* All sequences over S of length 0..n.
\* Let(v, LAMBDA x : e) is e with x naming the value v.
Let(v, Op(_)) == Op(v)

SeqsUpTo(S, n) == UNION {[1..k -> S] : k \in 0..n}

(***************************************************************************)
(* The external codec primitive, by contract.                              *)
(*                                                                         *)
(* Stream format: [header] body [trailer].  The body is a sequence of runs *)
(* <<count, byte>> with count >= 1, ended by one 0 byte.  The zlib wrapper *)
(* puts <<120>> before and a 1-byte checksum after the body, the gzip      *)
(* wrapper <<31, 139>> before and <<checksum, length % 256>> after it.     *)
(***************************************************************************)
\* The checksum of the model codec (crc32 / adler32), one byte at a time.
CrcByte(c, b) == (c * 7 + b + 1) % 251

RECURSIVE zng_crc32_z(_, _)
zng_crc32_z(c, s) ==
    IF s = <<>> THEN c ELSE zng_crc32_z(CrcByte(c, Head(s)), Tail(s))

WrapOf(wbits) ==
    IF wbits < 0 THEN "raw" ELSE IF wbits > MAX_WBITS THEN "gzip" ELSE "zlib"

WrapHeader(wrap) ==
    IF wrap = "zlib" THEN <<120>>
    ELSE IF wrap = "gzip" THEN <<31, 139>>
    ELSE <<>>

WrapTrailer(wrap, sum, total) ==
    IF wrap = "zlib" THEN <<sum>>
    ELSE IF wrap = "gzip" THEN <<sum, total % 256>>
    ELSE <<>>

\* Longest run the compressor forms: level 0 stores every byte on its own.
MaxRun(level) == IF level = 0 THEN 1 ELSE 3

\* In place of a run's byte: "the byte written last".  The compressor forms
\* it only for the first run after a preset dictionary, which is then that
\* dictionary's last byte.
BackRef == 200

\* deflateInit2: a fresh compression session.  "pend" are stream bytes
\* produced and not yet copied out; (open, val, cnt) is the run still being
\* extended, which only a flush closes.  "hist" is the last byte of the
\* preset dictionary (NULL without one), "ref" whether the open run is
\* written as a reference to it.
zng_deflateInit2(level, wbits) ==
    [level |-> level, wrap |-> WrapOf(wbits), pend |-> WrapHeader(WrapOf(wbits)),
     open |-> FALSE, val |-> 0, cnt |-> 0, sum |-> 0, total |-> 0,
     fin |-> FALSE, ended |-> FALSE, ends |-> 0, hist |-> NULL, ref |-> FALSE]

CloseRun(d) ==
    IF d.open
    THEN [d EXCEPT !.pend = @ \o <<d.cnt, IF d.ref THEN BackRef ELSE d.val>>,
                   !.open = FALSE, !.cnt = 0, !.ref = FALSE]
    ELSE d

DeflateByte(d, b) ==
    LET e == IF d.open /\ d.val = b /\ d.cnt < MaxRun(d.level)
             THEN [d EXCEPT !.cnt = @ + 1]
             ELSE [CloseRun(d) EXCEPT
                     !.open = TRUE, !.val = b, !.cnt = 1,
                     !.ref = (d.level # 0 /\ d.total = 0 /\ d.hist = b)]
    IN  [e EXCEPT !.sum = CrcByte(@, b), !.total = @ + 1]

RECURSIVE DeflateBytes(_, _)
DeflateBytes(d, s) ==
    IF s = <<>> THEN d ELSE DeflateBytes(DeflateByte(d, Head(s)), Tail(s))

DeflateFlush(d, flush) ==
    IF flush = Z_NO_FLUSH THEN d
    ELSE IF flush = Z_FINISH /\ ~d.fin
    THEN [CloseRun(d) EXCEPT
            !.pend = @ \o <<0>> \o WrapTrailer(d.wrap, d.sum, d.total),
            !.fin = TRUE]
    ELSE CloseRun(d)

\* Up to "cap" pending bytes leave the session d; "used" input bytes were
\* taken before.
DeflateEmit(d, cap, used) ==
    LET n == Py_MIN(cap, Len(d.pend)) IN
    [st |-> [d EXCEPT !.pend = Drop(@, n)], used |-> used,
     out |-> Take(d.pend, n),
     err |-> IF d.fin /\ n = Len(d.pend) THEN Z_STREAM_END
             ELSE IF used = 0 /\ n = 0 THEN Z_BUF_ERROR
             ELSE Z_OK]

\* deflate(strm, flush) on input "inp" with room for "cap" output bytes:
\* [st, used, out, err].  Pending output goes out first; input is taken only
\* once that has fitted, so avail_out # 0 on return implies avail_in = 0.
zng_deflate(d, inp, cap, flush) ==
    IF d.ended \/ (d.fin /\ flush # Z_FINISH)
    THEN [st |-> d, used |-> 0, out |-> <<>>, err |-> Z_STREAM_ERROR]
    ELSE IF cap = 0 \/ (d.fin /\ inp # <<>>)
    THEN [st |-> d, used |-> 0, out |-> <<>>, err |-> Z_BUF_ERROR]
    ELSE IF Len(d.pend) >= cap
    THEN DeflateEmit(d, cap, 0)
    ELSE DeflateEmit(DeflateFlush(DeflateBytes(d, inp), flush), cap, Len(inp))

\* deflateEnd: the session is released; "ends" counts the releases.
zng_deflateEnd(d) == [d EXCEPT !.ended = TRUE, !.ends = @ + 1]

\* deflateReset: the session as deflateInit2 left it, level and wrapper
\* kept: [st, err].
zng_deflateReset(d) ==
    IF d.ended THEN [st |-> d, err |-> Z_STREAM_ERROR]
    ELSE [st |-> [d EXCEPT !.pend = WrapHeader(d.wrap), !.open = FALSE,
                           !.val = 0, !.cnt = 0, !.sum = 0, !.total = 0,
                           !.fin = FALSE, !.hist = NULL, !.ref = FALSE],
          err |-> Z_OK]

\* A zlib stream made with a preset dictionary starts with FDictHeader and
\* the dictionary's checksum in place of the plain header.
FDictHeader == 121

DictId(dictionary) == zng_crc32_z(1, dictionary)

\* deflateSetDictionary: refused on a gzip stream, on a zlib stream that has
\* started and while input is held back in a run: [st, err].
zng_deflateSetDictionary(d, dictionary) ==
    IF \/ d.ended \/ d.wrap = "gzip" \/ d.open
       \/ (d.wrap = "zlib" /\ (d.total > 0 \/ d.pend # WrapHeader("zlib")))
    THEN [st |-> d, err |-> Z_STREAM_ERROR]
    ELSE IF dictionary = <<>> THEN [st |-> d, err |-> Z_OK]
    ELSE [st |-> [d EXCEPT !.hist = dictionary[Len(dictionary)],
                           !.pend = IF d.wrap = "zlib"
                                    THEN <<FDictHeader, DictId(dictionary)>>
                                    ELSE @],
          err |-> Z_OK]

\* crc32_combine: the checksum of A \o B from those of A and of B and the
\* length of B.  CrcByte is affine in c, so len2 bytes map c to
\* 7^len2 * c + (the checksum of B from 0).
RECURSIVE CrcShift(_, _)
CrcShift(c, len2) == IF len2 = 0 THEN c ELSE CrcShift((c * 7) % 251, len2 - 1)

zng_crc32_combine(crc1, crc2, len2) == (CrcShift(crc1 % 251, len2) + crc2) % 251

\* inflateInit2: a fresh decompression session.  mode is the part of the
\* stream expected next; "left" counts header / trailer bytes still to come
\* or the copies of val still to be written in mode "run".
zng_inflateInit2(wbits) ==
    LET wrap == WrapOf(wbits) IN
    [wrap |-> wrap, mode |-> IF wrap = "raw" THEN "cnt" ELSE "head",
     left |-> Len(WrapHeader(wrap)), val |-> 0, sum |-> 0, total_out |-> 0,
     ended |-> FALSE, ends |-> 0, dictid |-> 0, hist |-> FALSE]

zng_inflateReset(z) ==
    [z EXCEPT !.mode = IF z.wrap = "raw" THEN "cnt" ELSE "head",
              !.left = Len(WrapHeader(z.wrap)), !.val = 0, !.sum = 0,
              !.total_out = 0, !.dictid = 0, !.hist = FALSE]

\* inflateSetDictionary: on a wrapped stream only while the stream asks for
\* its dictionary (mode "dict"), and only the dictionary the stream names;
\* on a raw stream at any time: [st, err].
zng_inflateSetDictionary(z, dictionary) ==
    IF z.ended \/ (z.wrap # "raw" /\ z.mode # "dict")
    THEN [st |-> z, err |-> Z_STREAM_ERROR]
    ELSE IF z.mode = "dict" /\ DictId(dictionary) # z.dictid
    THEN [st |-> z, err |-> Z_DATA_ERROR]
    ELSE [st |-> [z EXCEPT !.mode = IF @ = "dict" THEN "cnt" ELSE @,
                           !.hist = @ \/ dictionary # <<>>,
                           !.val = IF dictionary = <<>> THEN @
                                   ELSE dictionary[Len(dictionary)]],
          err |-> Z_OK]

zng_inflateEnd(z) == [z EXCEPT !.ended = TRUE, !.ends = @ + 1]

\* One input byte taken by the decompressor in a mode that reads input.
InflateTake(z, b) ==
    IF z.mode = "head"
    THEN LET h == WrapHeader(z.wrap) IN
         IF z.wrap = "zlib" /\ b = FDictHeader
         THEN [z EXCEPT !.mode = "dictid", !.left = 0]
         ELSE IF b # h[Len(h) - z.left + 1] THEN [z EXCEPT !.mode = "bad"]
         ELSE IF z.left = 1 THEN [z EXCEPT !.mode = "cnt", !.left = 0]
         ELSE [z EXCEPT !.left = @ - 1]
    ELSE IF z.mode = "dictid"
    THEN [z EXCEPT !.mode = "dict", !.dictid = b]
    ELSE IF z.mode = "cnt"
    THEN IF b = 0
         THEN IF z.wrap = "raw" THEN [z EXCEPT !.mode = "done"]
              ELSE [z EXCEPT !.mode = "trail",
                             !.left = Len(WrapTrailer(z.wrap, 0, 0))]
         ELSE IF b > MaxRun(9) THEN [z EXCEPT !.mode = "bad"]
         ELSE [z EXCEPT !.mode = "val", !.left = b]
    ELSE IF z.mode = "val"
    THEN IF b # BackRef THEN [z EXCEPT !.mode = "run", !.val = b]
         ELSE IF z.total_out = 0 /\ ~z.hist THEN [z EXCEPT !.mode = "bad"]
         ELSE [z EXCEPT !.mode = "run"]
    ELSE \* "trail"
         LET t == WrapTrailer(z.wrap, z.sum, z.total_out) IN
         IF b # t[Len(t) - z.left + 1] THEN [z EXCEPT !.mode = "bad"]
         ELSE IF z.left = 1 THEN [z EXCEPT !.mode = "done", !.left = 0]
         ELSE [z EXCEPT !.left = @ - 1]

\* The decompressor's loop: it runs until the stream ends or is found bad,
\* its dictionary is asked for, the input is used up while input is needed,
\* or a byte has to be written and the output is full.
RECURSIVE InflateLoop(_, _, _, _, _)
InflateLoop(z, inp, used, out, cap) ==
    IF z.mode \in {"done", "bad", "dict"}
    THEN [st |-> z, used |-> used, out |-> out]
    ELSE IF z.mode = "run"
    THEN IF Len(out) = cap
         THEN [st |-> z, used |-> used, out |-> out]
         ELSE InflateLoop(
                [z EXCEPT !.left = @ - 1,
                          !.mode = IF z.left = 1 THEN "cnt" ELSE "run",
                          !.sum = CrcByte(@, z.val),
                          !.total_out = @ + 1],
                inp, used, Append(out, z.val), cap)
    ELSE IF used = Len(inp)
    THEN [st |-> z, used |-> used, out |-> out]
    ELSE InflateLoop(InflateTake(z, inp[used + 1]), inp, used + 1, out, cap)

\* inflate(strm, flush) on input "inp" with room for "cap" output bytes:
\* [st, used, out, err].
zng_inflate(z, inp, cap, flush) ==
    IF z.ended
    THEN [st |-> z, used |-> 0, out |-> <<>>, err |-> Z_STREAM_ERROR]
    ELSE
    Let(InflateLoop(z, inp, 0, <<>>, cap), LAMBDA r :
    [st |-> r.st, used |-> r.used, out |-> r.out,
     err |-> IF r.st.mode = "done" THEN Z_STREAM_END
             ELSE IF r.st.mode = "bad" THEN Z_DATA_ERROR
             ELSE IF r.st.mode = "dict" THEN Z_NEED_DICT
             ELSE IF (r.used = 0 /\ r.out = <<>>) \/ flush = Z_FINISH
                  THEN Z_BUF_ERROR
             ELSE Z_OK])

(***************************************************************************)
(* BufferArbiter: the 32-bit input window and the growing output buffer.   *)
(*                                                                         *)
(* A zng_stream is [st, next_in, avail_in, out, avail_out]: st the codec   *)
(* session, next_in an offset into the caller's input, out the bytes       *)
(* between the start of the output buffer and next_out.  An output buffer  *)
(* is NULL or its allocated length.                                        *)
(***************************************************************************)
\* Py_MIN((size_t)n, m) for a signed n: a negative n is a huge size_t.
MinSizeT(n, m) == IF n < 0 THEN m ELSE Py_MIN(n, m)

NewStream(st) ==
    [st |-> st, next_in |-> 0, avail_in |-> 0, out |-> <<>>, avail_out |-> 0]

\* Mutant: the whole remaining input is claimed at once, not cut to what the
\* codec's 32-bit avail_in can hold.
arrange_input_buffer_whole(zst, remains) ==
    [zst |-> [zst EXCEPT !.avail_in = remains], remains |-> 0]

arrange_input_buffer(zst, remains) ==
    LET n == Py_MIN(remains, UINT32_MAX) IN
    [zst |-> [zst EXCEPT !.avail_in = n], remains |-> remains - n]

\* Mutant: after a resize next_out is set to the start of the buffer instead
\* of start + occupied, so the bytes already written are overwritten.
arrange_output_buffer_at_start(zst, buffer, length, max_length) ==
    IF buffer = NULL
    THEN [ret |-> length, buffer |-> length,
          zst |-> [zst EXCEPT !.out = <<>>,
                              !.avail_out = Py_MIN(length, UINT32_MAX)]]
    ELSE
    LET occupied == Len(zst.out) IN
    IF length = occupied /\ length = max_length
    THEN [ret |-> -2, buffer |-> buffer, zst |-> zst]
    ELSE
    LET new_length == IF length # occupied THEN length
                      ELSE IF length <= max_length \div 2 THEN length * 2
                      ELSE max_length
    IN  [ret |-> new_length, buffer |-> new_length,
         zst |-> [zst EXCEPT
                    !.out = IF length = occupied THEN <<>> ELSE @,
                    !.avail_out = Py_MIN(new_length, UINT32_MAX)]]

\* Mutant: a full buffer below max_length is doubled even when that takes it
\* beyond max_length.
arrange_output_buffer_unclamped(zst, buffer, length, max_length) ==
    LET occupied == IF buffer = NULL THEN 0 ELSE Len(zst.out)
        full == buffer # NULL /\ length = occupied
        new_length == IF full THEN length * 2 ELSE length
    IN  IF full /\ length = max_length
        THEN [ret |-> -2, buffer |-> buffer, zst |-> zst]
        ELSE [ret |-> new_length,
              buffer |-> IF buffer = NULL \/ full THEN new_length ELSE buffer,
              zst |-> [zst EXCEPT
                         !.out = IF buffer = NULL THEN <<>> ELSE @,
                         !.avail_out = MinSizeT(new_length - occupied,
                                                UINT32_MAX)]]

\* Mutant: the free space is announced in full, not cut to what the codec's
\* 32-bit avail_out can hold.
arrange_output_buffer_uncut(zst, buffer, length, max_length) ==
    LET occupied == IF buffer = NULL THEN 0 ELSE Len(zst.out)
        full == buffer # NULL /\ length = occupied
    IN
    IF full /\ length = max_length
    THEN [ret |-> -2, buffer |-> buffer, zst |-> zst]
    ELSE
    LET new_length == IF ~full THEN length
                      ELSE IF length <= max_length \div 2 THEN length * 2
                      ELSE max_length
    IN  [ret |-> new_length,
         buffer |-> IF buffer = NULL \/ full THEN new_length ELSE buffer,
         zst |-> [zst EXCEPT
                    !.out = IF buffer = NULL THEN <<>> ELSE @,
                    !.avail_out = new_length - occupied]]

arrange_output_buffer_with_maximum(zst, buffer, length, max_length) ==
    LET occupied == IF buffer = NULL THEN 0 ELSE Len(zst.out)
        full == buffer # NULL /\ length = occupied
    IN
    IF full /\ length = max_length
    THEN [ret |-> -2, buffer |-> buffer, zst |-> zst]
    ELSE
    LET new_length == IF ~full THEN length
                      ELSE IF length <= max_length \div 2 THEN length * 2
                      ELSE max_length
    IN  [ret |-> new_length,
         buffer |-> IF buffer = NULL \/ full THEN new_length ELSE buffer,
         zst |-> [zst EXCEPT
                    !.out = IF buffer = NULL THEN <<>> ELSE @,
                    !.avail_out = MinSizeT(new_length - occupied, UINT32_MAX)]]

arrange_output_buffer(zst, buffer, length) ==
    arrange_output_buffer_with_maximum(zst, buffer, length, PY_SSIZE_T_MAX)

\* The input the codec sees in one call: avail_in bytes from next_in.
Window(zst, data) == SubSeq(data, zst.next_in + 1, zst.next_in + zst.avail_in)

\* The stream's cursors after a codec call that used r.used input bytes and
\* wrote r.out.
Advance(zst, r) ==
    [zst EXCEPT !.st = r.st, !.next_in = @ + r.used, !.avail_in = @ - r.used,
                !.out = @ \o r.out, !.avail_out = @ - Len(r.out)]

\* err = zng_deflate(&zst, flush), the input window lying in "data".
deflate(zst, data, flush) ==
    Let(zng_deflate(zst.st, Window(zst, data), zst.avail_out, flush),
        LAMBDA r : [zst |-> Advance(zst, r), err |-> r.err])

\* err = zng_inflate(&zst, flush), the input window lying in "data".
inflate(zst, data, flush) ==
    Let(zng_inflate(zst.st, Window(zst, data), zst.avail_out, flush),
        LAMBDA r : [zst |-> Advance(zst, r), err |-> r.err])

(***************************************************************************)
(* One-shot compress and decompress.                                       *)
(***************************************************************************)
\* do { arrange_output_buffer; deflate } while (avail_out == 0)
RECURSIVE DeflateRounds(_, _, _, _, _)
DeflateRounds(zst, data, buffer, obuflen, flush) ==
    Let(arrange_output_buffer(zst, buffer, obuflen), LAMBDA a :
    IF a.ret < 0
    THEN [zst |-> a.zst, buffer |-> a.buffer, obuflen |-> a.ret,
          err |-> Z_MEM_ERROR]
    ELSE
    Let(deflate(a.zst, data, flush), LAMBDA r :
    IF r.err # Z_STREAM_ERROR /\ r.zst.avail_out = 0
    THEN DeflateRounds(r.zst, data, a.buffer, a.ret, flush)
    ELSE [zst |-> r.zst, buffer |-> a.buffer, obuflen |-> a.ret,
          err |-> r.err]))

RECURSIVE CompressLoop(_, _, _, _, _)
CompressLoop(zst, data, ibuflen, buffer, obuflen) ==
    Let(arrange_input_buffer(zst, ibuflen), LAMBDA ai :
    Let(DeflateRounds(ai.zst, data, buffer, obuflen,
                      IF ai.remains = 0 THEN Z_FINISH ELSE Z_NO_FLUSH),
        LAMBDA r :
    IF r.err \in {Z_MEM_ERROR, Z_STREAM_ERROR} \/ ai.remains = 0
    THEN r
    ELSE CompressLoop(r.zst, data, ai.remains, r.buffer, r.obuflen)))

Raise(exc) == [ok |-> FALSE, value |-> <<>>, exc |-> exc]

Return(value) == [ok |-> TRUE, value |-> value, exc |-> "none"]

\* No call has returned yet.
NoResult == [ok |-> FALSE, value |-> <<>>, exc |-> "unset"]

zlib_compress_impl(data, level, wbits) ==
    IF level \notin -1..9
    THEN Raise("ZlibError")
    ELSE
    Let(CompressLoop(NewStream(zng_deflateInit2(level, wbits)), data,
                     Len(data), NULL, DEF_BUF_SIZE), LAMBDA r :
    IF r.err = Z_MEM_ERROR THEN Raise("MemoryError")
    ELSE IF r.err = Z_STREAM_ERROR THEN Raise("ZlibError")
    ELSE Return(r.zst.out))

\* do { arrange_output_buffer; inflate } while (avail_out == 0)
RECURSIVE InflateRounds(_, _, _, _, _)
InflateRounds(zst, data, buffer, bufsize, flush) ==
    Let(arrange_output_buffer(zst, buffer, bufsize), LAMBDA a :
    IF a.ret < 0
    THEN [zst |-> a.zst, buffer |-> a.buffer, obuflen |-> a.ret,
          err |-> Z_MEM_ERROR]
    ELSE
    Let(inflate(a.zst, data, flush), LAMBDA r :
    IF r.err \in {Z_OK, Z_BUF_ERROR, Z_STREAM_END} /\ r.zst.avail_out = 0
    THEN InflateRounds(r.zst, data, a.buffer, a.ret, flush)
    ELSE [zst |-> r.zst, buffer |-> a.buffer, obuflen |-> a.ret,
          err |-> r.err]))

RECURSIVE DecompressLoop(_, _, _, _, _)
DecompressLoop(zst, data, ibuflen, buffer, bufsize) ==
    Let(arrange_input_buffer(zst, ibuflen), LAMBDA ai :
    Let(InflateRounds(ai.zst, data, buffer, bufsize,
                      IF ai.remains = 0 THEN Z_FINISH ELSE Z_NO_FLUSH),
        LAMBDA r :
    IF r.err \in {Z_OK, Z_BUF_ERROR} /\ ai.remains # 0
    THEN DecompressLoop(r.zst, data, ai.remains, r.buffer, r.obuflen)
    ELSE r))

zlib_decompress_impl(data, wbits, bufsize) ==
    IF bufsize < 0
    THEN Raise("ValueError")
    ELSE
    Let(DecompressLoop(NewStream(zng_inflateInit2(wbits)), data, Len(data),
                       NULL, IF bufsize = 0 THEN 1 ELSE bufsize), LAMBDA r :
    IF r.err = Z_MEM_ERROR THEN Raise("MemoryError")
    ELSE IF r.err # Z_STREAM_END THEN Raise("ZlibError")
    ELSE Return(r.zst.out))

(***************************************************************************)
(* StreamCodecSession: the Compress and Decompress objects (compobject).   *)
(* An operation yields [self, res]: the object afterwards and what the     *)
(* call returned or raised.                                                *)
(***************************************************************************)
\* The zdict of an object is a byte sequence; a NULL zdict is this one.
NoZdict == <<NULL>>

newcompobject ==
    [zst |-> NewStream(NULL), unused_data |-> <<>>, unconsumed_tail |-> <<>>,
     eof |-> FALSE, is_initialised |-> FALSE, zdict |-> NoZdict]

\* compressobj(level, wbits, zdict): the object, or the exception when the
\* codec refuses the dictionary.
zlib_compressobj_impl(level, wbits, zdict) ==
    LET d == zng_deflateInit2(level, wbits) IN
    IF zdict # NoZdict /\ Len(zdict) > UINT32_MAX THEN Raise("OverflowError")
    ELSE IF zdict = NoZdict
    THEN [newcompobject EXCEPT !.zst = NewStream(d), !.is_initialised = TRUE]
    ELSE LET sd == zng_deflateSetDictionary(d, zdict) IN
         IF sd.err # Z_OK THEN Raise("ValueError")
         ELSE [newcompobject EXCEPT !.zst = NewStream(sd.st),
                                    !.is_initialised = TRUE]

\* set_inflate_zdict, on the stream and the dictionary of the object:
\* [zst, ret, exc].
set_inflate_zdict(zst, zdict) ==
    IF Len(zdict) > UINT32_MAX
    THEN [zst |-> zst, ret |-> -1, exc |-> "OverflowError"]
    ELSE LET sd == zng_inflateSetDictionary(zst.st, zdict) IN
         IF sd.err # Z_OK
         THEN [zst |-> [zst EXCEPT !.st = sd.st], ret |-> -1,
               exc |-> "ZlibError"]
         ELSE [zst |-> [zst EXCEPT !.st = sd.st], ret |-> 0, exc |-> "none"]

\* decompressobj(wbits, zdict): the object, or the exception when a raw
\* stream's dictionary cannot be installed at once.
zlib_decompressobj_impl(wbits, zdict) ==
    LET self == [newcompobject EXCEPT
                    !.zst = NewStream(zng_inflateInit2(wbits)),
                    !.is_initialised = TRUE, !.zdict = zdict]
    IN  IF zdict # NoZdict /\ wbits < 0
        THEN LET sd == set_inflate_zdict(self.zst, zdict) IN
             IF sd.ret < 0 THEN Raise(sd.exc)
             ELSE [self EXCEPT !.zst = sd.zst]
        ELSE self

RECURSIVE CompressObjLoop(_, _, _, _, _)
CompressObjLoop(zst, data, ibuflen, buffer, obuflen) ==
    Let(arrange_input_buffer(zst, ibuflen), LAMBDA ai :
    Let(DeflateRounds(ai.zst, data, buffer, obuflen, Z_NO_FLUSH), LAMBDA r :
    IF r.err \in {Z_MEM_ERROR, Z_STREAM_ERROR} \/ ai.remains = 0
    THEN r
    ELSE CompressObjLoop(r.zst, data, ai.remains, r.buffer, r.obuflen)))

zlib_Compress_compress_impl(self, data) ==
    Let(CompressObjLoop([self.zst EXCEPT !.next_in = 0], data, Len(data),
                        NULL, DEF_BUF_SIZE), LAMBDA r :
    [self |-> [self EXCEPT !.zst = r.zst],
     res |-> IF r.err = Z_MEM_ERROR THEN Raise("MemoryError")
             ELSE IF r.err = Z_STREAM_ERROR THEN Raise("ZlibError")
             ELSE Return(r.zst.out)])

\* Mutant: flush calls the codec once and does not come back for the output
\* that did not fit the first buffer.
zlib_Compress_flush_single_call(self, mode) ==
    Let(arrange_output_buffer(self.zst, NULL, DEF_BUF_SIZE), LAMBDA a :
    Let(deflate([a.zst EXCEPT !.avail_in = 0], <<>>, mode), LAMBDA r :
    [self |-> [self EXCEPT !.zst = [r.zst EXCEPT !.st = zng_deflateEnd(@)],
                           !.is_initialised = FALSE],
     res |-> Return(r.zst.out)]))

zlib_Compress_flush_impl(self, mode) ==
    IF mode = Z_NO_FLUSH
    THEN [self |-> self, res |-> Return(<<>>)]
    ELSE
    Let(DeflateRounds([self.zst EXCEPT !.avail_in = 0], <<>>, NULL,
                      DEF_BUF_SIZE, mode), LAMBDA r :
    IF r.err = Z_MEM_ERROR
    THEN [self |-> [self EXCEPT !.zst = r.zst], res |-> Raise("MemoryError")]
    ELSE IF r.err = Z_STREAM_ERROR
    THEN [self |-> [self EXCEPT !.zst = r.zst], res |-> Raise("ZlibError")]
    ELSE IF r.err = Z_STREAM_END /\ mode = Z_FINISH
    THEN [self |-> [self EXCEPT !.zst = [r.zst EXCEPT
                                           !.st = zng_deflateEnd(@)],
                                !.is_initialised = FALSE],
          res |-> Return(r.zst.out)]
    ELSE IF r.err \notin {Z_OK, Z_BUF_ERROR}
    THEN [self |-> [self EXCEPT !.zst = r.zst], res |-> Raise("ZlibError")]
    ELSE [self |-> [self EXCEPT !.zst = r.zst], res |-> Return(r.zst.out)])

\* What save_unconsumed_input does when it has something to save.
save_leftover(self, left, err) ==
    Let(IF err = Z_STREAM_END /\ self.zst.avail_in > 0
        THEN [self EXCEPT !.unused_data = @ \o left, !.zst.avail_in = 0]
        ELSE self, LAMBDA s1 :
    IF s1.zst.avail_in > 0 \/ Len(s1.unconsumed_tail) > 0
    THEN [s1 EXCEPT !.unconsumed_tail = left]
    ELSE s1)

save_unconsumed_input(self, data, err) ==
    save_leftover(self, Drop(data, self.zst.next_in), err)

\* The inner do-while of Decompress.decompress.  "stop" says how it was left:
\* "loop" (the while condition failed), "save" (goto save) or "abort"; err
\* is the caller's err when the codec was not called.
RECURSIVE DecompressObjRounds(_, _, _, _, _, _, _, _)
DecompressObjRounds(zst, zdict, data, buffer, obuflen, hard_limit, max_length, err) ==
    Let(arrange_output_buffer_with_maximum(zst, buffer, obuflen, hard_limit),
        LAMBDA a :
    IF a.ret = -2 /\ max_length > 0
    THEN [zst |-> a.zst, buffer |-> a.buffer, obuflen |-> a.ret,
          stop |-> "save", err |-> err]
    ELSE IF a.ret < 0
    THEN [zst |-> a.zst, buffer |-> a.buffer, obuflen |-> a.ret,
          stop |-> "abort", err |-> err, exc |-> "MemoryError"]
    ELSE
    Let(inflate(a.zst, data, Z_SYNC_FLUSH), LAMBDA r :
    IF r.err \notin {Z_OK, Z_BUF_ERROR, Z_STREAM_END}
       /\ ~(r.err = Z_NEED_DICT /\ zdict # NoZdict)
    THEN [zst |-> r.zst, buffer |-> a.buffer, obuflen |-> a.ret,
          stop |-> "save", err |-> r.err]
    ELSE IF r.err = Z_NEED_DICT
    THEN LET sd == set_inflate_zdict(r.zst, zdict) IN
         IF sd.ret < 0
         THEN [zst |-> sd.zst, buffer |-> a.buffer, obuflen |-> a.ret,
               stop |-> "abort", err |-> r.err, exc |-> sd.exc]
         ELSE DecompressObjRounds(sd.zst, zdict, data, a.buffer, a.ret,
                                  hard_limit, max_length, r.err)
    ELSE IF r.zst.avail_out = 0
    THEN DecompressObjRounds(r.zst, zdict, data, a.buffer, a.ret, hard_limit,
                             max_length, r.err)
    ELSE [zst |-> r.zst, buffer |-> a.buffer, obuflen |-> a.ret,
          stop |-> "loop", err |-> r.err]))

RECURSIVE DecompressObjLoop(_, _, _, _, _, _, _, _, _)
DecompressObjLoop(zst, zdict, data, ibuflen, buffer, obuflen, hard_limit, max_length, err) ==
    Let(arrange_input_buffer(zst, ibuflen), LAMBDA ai :
    Let(DecompressObjRounds(ai.zst, zdict, data, buffer, obuflen, hard_limit,
                            max_length, err), LAMBDA r :
    IF r.stop = "loop" /\ r.err # Z_STREAM_END /\ ai.remains # 0
    THEN DecompressObjLoop(r.zst, zdict, data, ai.remains, r.buffer,
                           r.obuflen, hard_limit, max_length, r.err)
    ELSE r))

\* Decompress.decompress from the label "save" on.
decompress_save(self, data, err) ==
    Let(save_unconsumed_input(self, data, err), LAMBDA s1 :
    IF err = Z_STREAM_END
    THEN [self |-> [s1 EXCEPT !.eof = TRUE], res |-> Return(s1.zst.out)]
    ELSE IF err \notin {Z_OK, Z_BUF_ERROR}
    THEN [self |-> s1, res |-> Raise("ZlibError")]
    ELSE [self |-> s1, res |-> Return(s1.zst.out)])

zlib_Decompress_decompress_impl(self, data, max_length) ==
    IF max_length < 0
    THEN [self |-> self, res |-> Raise("ValueError")]
    ELSE
    Let(DecompressObjLoop(
            [self.zst EXCEPT !.next_in = 0], self.zdict, data, Len(data), NULL,
            IF max_length # 0 /\ DEF_BUF_SIZE > max_length
            THEN max_length ELSE DEF_BUF_SIZE,
            IF max_length = 0 THEN PY_SSIZE_T_MAX ELSE max_length,
            max_length, Z_OK), LAMBDA r :
    IF r.stop = "abort"
    THEN [self |-> [self EXCEPT !.zst = r.zst], res |-> Raise(r.exc)]
    ELSE decompress_save([self EXCEPT !.zst = r.zst], data, r.err))

\* The loops of Decompress.flush: as DecompressLoop, any other status
\* leaving both loops (goto save).
RECURSIVE DecompressFlushLoop(_, _, _, _, _)
DecompressFlushLoop(zst, data, ibuflen, buffer, length) ==
    Let(arrange_input_buffer(zst, ibuflen), LAMBDA ai :
    Let(InflateRounds(ai.zst, data, buffer, length,
                      IF ai.remains = 0 THEN Z_FINISH ELSE Z_NO_FLUSH),
        LAMBDA r :
    IF r.err \in {Z_OK, Z_BUF_ERROR} /\ ai.remains # 0
    THEN DecompressFlushLoop(r.zst, data, ai.remains, r.buffer, r.obuflen)
    ELSE r))

\* Decompress.flush from the label "save" on.
flush_save(self, data, err) ==
    Let(save_unconsumed_input(self, data, err), LAMBDA s1 :
    IF err = Z_STREAM_END
    THEN [self |-> [s1 EXCEPT !.eof = TRUE, !.is_initialised = FALSE,
                              !.zst.st = zng_inflateEnd(@)],
          res |-> Return(s1.zst.out)]
    ELSE [self |-> s1, res |-> Return(s1.zst.out)])

zlib_Decompress_flush_impl(self, length) ==
    IF length <= 0
    THEN [self |-> self, res |-> Raise("ValueError")]
    ELSE
    Let(DecompressFlushLoop([self.zst EXCEPT !.next_in = 0],
                            self.unconsumed_tail, Len(self.unconsumed_tail),
                            NULL, length), LAMBDA r :
    IF r.err = Z_MEM_ERROR
    THEN [self |-> [self EXCEPT !.zst = r.zst], res |-> Raise("MemoryError")]
    ELSE flush_save([self EXCEPT !.zst = r.zst], self.unconsumed_tail, r.err))

(***************************************************************************)
(* ZlibDecompressor: a decompressor that keeps its unconsumed input in an  *)
(* input buffer of its own.  zst.next_in is NULL or an offset into the     *)
(* memory it points into: the caller's data during a call that started     *)
(* with next_in = NULL, the input buffer otherwise.                        *)
(***************************************************************************)
DEF_MAX_INITIAL_BUF_SIZE == 2

\* The content of a byte of allocated memory that was never written.
Unwritten == 255

Max(a, b) == IF a > b THEN a ELSE b

\* input_buffer = NULL: no memory (an allocated buffer has a byte or more).
NoBuffer == <<>>

\* _ZlibDecompressor(wbits, zdict): the object, or the exception when a raw
\* stream's dictionary cannot be installed at once.
ZlibDecompressor__new__(wbits, zdict) ==
    LET self ==
          [zst |-> [NewStream(zng_inflateInit2(wbits)) EXCEPT
                      !.next_in = NULL],
           zdict |-> zdict, unused_data |-> <<>>, input_buffer |-> NoBuffer,
           input_buffer_size |-> 0, avail_in_real |-> 0,
           is_initialised |-> TRUE, eof |-> FALSE, needs_input |-> TRUE]
    IN  IF zdict # NoZdict /\ wbits < 0
        THEN LET sd == set_inflate_zdict(self.zst, zdict) IN
             IF sd.ret < 0 THEN Raise(sd.exc)
             ELSE [self EXCEPT !.zst = sd.zst]
        ELSE self

\* The inner do-while of decompress_buf.  "stop" says how it was left: "loop"
\* (the while condition failed), "break" (the buffer is at its limit) or
\* "error".  "room" is the largest extent, counted from the start of the
\* output buffer, of the space announced to the codec in a call.
RECURSIVE DecompressBufRounds(_, _, _, _, _, _, _)
DecompressBufRounds(zst, mem, buffer, obuflen, hard_limit, err, room) ==
    Let(arrange_output_buffer_with_maximum(zst, buffer, obuflen, hard_limit),
        LAMBDA a :
    IF a.ret = -2
    THEN [zst |-> a.zst, buffer |-> a.buffer, obuflen |-> a.ret,
          stop |-> "break", err |-> err, room |-> room]
    ELSE
    Let(inflate(a.zst, mem, Z_SYNC_FLUSH), LAMBDA r :
    IF r.err = Z_NEED_DICT
    THEN [zst |-> r.zst, buffer |-> a.buffer, obuflen |-> a.ret,
          stop |-> "error", err |-> r.err,
          room |-> Max(room, Len(a.zst.out) + a.zst.avail_out)]
    ELSE IF r.zst.avail_out = 0
    THEN DecompressBufRounds(r.zst, mem, a.buffer, a.ret, hard_limit, r.err,
                             Max(room, Len(a.zst.out) + a.zst.avail_out))
    ELSE [zst |-> r.zst, buffer |-> a.buffer, obuflen |-> a.ret,
          stop |-> "loop", err |-> r.err,
          room |-> Max(room, Len(a.zst.out) + a.zst.avail_out)]))

\* The outer do-while of decompress_buf; "capped" counts the rounds that
\* found the output buffer at its limit.
RECURSIVE DecompressBufLoop(_, _, _, _, _, _, _, _, _)
DecompressBufLoop(zst, avail_in_real, mem, buffer, obuflen, hard_limit, err, room, capped) ==
    Let(arrange_input_buffer(zst, avail_in_real), LAMBDA ai :
    Let(DecompressBufRounds(ai.zst, mem, buffer, obuflen, hard_limit, err,
                            room), LAMBDA r :
    IF r.stop # "error" /\ r.err # Z_STREAM_END /\ ai.remains # 0
    THEN DecompressBufLoop(r.zst, ai.remains, mem, r.buffer, r.obuflen,
                           hard_limit, r.err, r.room,
                           capped + IF r.stop = "break" THEN 1 ELSE 0)
    ELSE [zst |-> r.zst, avail_in_real |-> ai.remains, stop |-> r.stop,
          err |-> r.err, room |-> r.room,
          capped |-> capped + IF r.stop = "break" THEN 1 ELSE 0]))

\* decompress_buf: [self, res, room, capped], res being NULL (Raise) or the
\* bytes returned.
decompress_buf(self, mem, max_length) ==
    Let(DecompressBufLoop(
            self.zst, self.avail_in_real, mem, NULL,
            IF max_length < 0 \/ max_length = PY_SSIZE_T_MAX THEN DEF_BUF_SIZE
            ELSE Py_MIN(max_length, DEF_MAX_INITIAL_BUF_SIZE),
            IF max_length < 0 \/ max_length = PY_SSIZE_T_MAX
            THEN PY_SSIZE_T_MAX ELSE max_length,
            Z_OK, 0, 0), LAMBDA r :
    IF r.stop = "error"
    THEN [self |-> [self EXCEPT !.zst = r.zst,
                                !.avail_in_real = r.avail_in_real],
          res |-> Raise("SystemError"), room |-> r.room, capped |-> r.capped]
    ELSE IF r.err = Z_STREAM_END
    THEN [self |-> [self EXCEPT
                      !.zst = [r.zst EXCEPT !.st = zng_inflateEnd(@)],
                      !.eof = TRUE, !.is_initialised = FALSE,
                      !.avail_in_real = r.avail_in_real + r.zst.avail_in],
          res |-> Return(r.zst.out), room |-> r.room, capped |-> r.capped]
    ELSE IF r.err \notin {Z_OK, Z_BUF_ERROR}
    THEN [self |-> [self EXCEPT !.zst = r.zst,
                                !.avail_in_real = r.avail_in_real],
          res |-> Raise("ZlibError"), room |-> r.room, capped |-> r.capped]
    ELSE [self |-> [self EXCEPT
                      !.zst = r.zst,
                      !.avail_in_real = r.avail_in_real + r.zst.avail_in],
          res |-> Return(r.zst.out), room |-> r.room, capped |-> r.capped])

\* PyMem_Malloc(n) / PyMem_Realloc(buf, n): n bytes, the old content kept.
PyMem_Realloc(buf, n) ==
    [i \in 1..n |-> IF i <= Len(buf) THEN buf[i] ELSE Unwritten]

\* memcpy / memmove of "bytes" to offset "off" of the memory "buf".
memcpy(buf, off, bytes) ==
    [i \in 1..Len(buf) |->
        IF i > off /\ i <= off + Len(bytes) THEN bytes[i - off] ELSE buf[i]]

\* The first part of decompress: the new data is appended to the pending
\* input in the input buffer (grown, or compacted, when it does not fit).
prepend_unconsumed_input(self, data) ==
    Let([avail_now |-> self.input_buffer_size
                         - (self.zst.next_in + self.avail_in_real),
         avail_total |-> self.input_buffer_size - self.avail_in_real],
        LAMBDA v :
    Let(IF v.avail_total < Len(data)
        THEN [self EXCEPT
                !.input_buffer =
                    PyMem_Realloc(@, self.input_buffer_size + Len(data)
                                       - v.avail_now),
                !.input_buffer_size = @ + Len(data) - v.avail_now]
        ELSE IF v.avail_now < Len(data)
        THEN [self EXCEPT
                !.input_buffer =
                    memcpy(@, 0, SubSeq(@, self.zst.next_in + 1,
                                        self.zst.next_in + self.avail_in_real)),
                !.zst.next_in = 0]
        ELSE self, LAMBDA s1 :
    [s1 EXCEPT !.input_buffer =
                   memcpy(@, s1.zst.next_in + s1.avail_in_real, data),
               !.avail_in_real = @ + Len(data)]))

\* The last part of decompress, after a successful decompress_buf: mem is
\* the memory next_in points into.
after_decompress_buf(self, mem, input_buffer_in_use) ==
    IF self.eof
    THEN [self EXCEPT
            !.needs_input = FALSE,
            !.unused_data =
                IF self.avail_in_real > 0
                THEN SubSeq(mem, self.zst.next_in + 1,
                            self.zst.next_in + self.avail_in_real)
                ELSE @]
    ELSE IF self.avail_in_real = 0
    THEN [self EXCEPT !.zst.next_in = NULL, !.needs_input = TRUE]
    ELSE IF input_buffer_in_use
    THEN [self EXCEPT !.needs_input = FALSE]
    ELSE
    Let(IF self.input_buffer = NoBuffer
           \/ self.input_buffer_size < self.avail_in_real
        THEN [self EXCEPT
                !.input_buffer = PyMem_Realloc(NoBuffer, self.avail_in_real),
                !.input_buffer_size = self.avail_in_real]
        ELSE self, LAMBDA s1 :
    [s1 EXCEPT !.needs_input = FALSE,
               !.input_buffer =
                   memcpy(@, 0, SubSeq(mem, self.zst.next_in + 1,
                                       self.zst.next_in + self.avail_in_real)),
               !.zst.next_in = 0])

\* decompress: [self, res, room, capped].
decompress(self, data, max_length) ==
    Let(IF self.zst.next_in # NULL
        THEN prepend_unconsumed_input(self, data)
        ELSE [self EXCEPT !.zst.next_in = 0, !.avail_in_real = Len(data)],
        LAMBDA s1 :
    Let(decompress_buf(s1, IF self.zst.next_in # NULL THEN s1.input_buffer
                           ELSE data, max_length), LAMBDA r :
    IF ~r.res.ok
    THEN [r EXCEPT !.self.zst.next_in = NULL]
    ELSE [r EXCEPT !.self = after_decompress_buf(
                                r.self,
                                IF self.zst.next_in # NULL
                                THEN s1.input_buffer ELSE data,
                                self.zst.next_in # NULL)]))

zlib_ZlibDecompressor_decompress(self, data, max_length) ==
    IF self.eof
    THEN [self |-> self, res |-> Raise("EOFError"), room |-> 0, capped |-> 0]
    ELSE decompress(self, data, max_length)

(***************************************************************************)
(* GzipReader: the state machine that reads concatenated gzip members.     *)
(*                                                                         *)
(* input_buffer is the content of the reader's buffer below buffer_end     *)
(* (memory past buffer_end is never read); current_pos and buffer_end are  *)
(* offsets into it.  fp is the byte source: its data and, for a file, its  *)
(* position.                                                               *)
(***************************************************************************)
GzipReader_HEADER == 1
GzipReader_DEFLATE_BLOCK == 2
GzipReader_TRAILER == 3
GzipReader_NULL_BYTES == 4

FHCRC == 2
FEXTRA == 4
FNAME == 8
FCOMMENT == 16

\* flags & bit, for a bit that is a power of two.
HasFlag(flags, bit) == (flags \div bit) % 2 = 1

load_u16_le(mem, address) == mem[address + 1] + 256 * mem[address + 2]

load_u32_le(mem, address) ==
    mem[address + 1] + 256 * mem[address + 2] + 65536 * mem[address + 3]
      + 16777216 * mem[address + 4]

\* 0xFFFFFFFF & n, for n >= 0.
Low32(n) == (n % 65536) + 65536 * ((n \div 65536) % 65536)

\* memchr(mem + from, 0, end - from): the offset of the first zero byte at or
\* after "from" and before "end", or NULL.
memchr0(mem, from, end) ==
    IF \E i \in from..(end - 1) : mem[i + 1] = 0
    THEN CHOOSE i \in from..(end - 1) :
            mem[i + 1] = 0 /\ \A j \in from..(i - 1) : mem[j + 1] # 0
    ELSE NULL

GzipReader__new__(data, is_file, buffer_size) ==
    [input_buffer |-> IF is_file THEN <<>> ELSE data,
     buffer_size |-> IF is_file THEN buffer_size ELSE Len(data),
     current_pos |-> 0,
     buffer_end |-> IF is_file THEN 0 ELSE Len(data),
     _pos |-> 0, _size |-> -1,
     fp |-> [data |-> data, pos |-> 0], memview |-> ~is_file,
     stream_phase |-> GzipReader_HEADER,
     all_bytes_read |-> ~is_file, closed |-> FALSE, _last_mtime |-> 0,
     crc |-> 0, zst |-> NewStream(zng_inflateInit2(-MAX_WBITS))]

\* The header fields after the fixed ten bytes, header_cursor being at hc:
\* [stop, cursor] with stop "break" when the field is not wholly in the
\* buffer.
skip_extra(mem, hc, buffer_end, flags) ==
    IF ~HasFlag(flags, FEXTRA) THEN [stop |-> "no", cursor |-> hc]
    ELSE IF hc + 2 >= buffer_end THEN [stop |-> "break", cursor |-> hc]
    ELSE IF hc + 2 + load_u16_le(mem, hc) >= buffer_end
    THEN [stop |-> "break", cursor |-> hc + 2]
    ELSE [stop |-> "no", cursor |-> hc + 2 + load_u16_le(mem, hc)]

\* A zero-terminated field (the name, the comment) when its flag is set.
skip_string(mem, h, buffer_end, flags, bit) ==
    IF h.stop # "no" \/ ~HasFlag(flags, bit) THEN h
    ELSE IF memchr0(mem, h.cursor, buffer_end) = NULL
    THEN [stop |-> "break", cursor |-> h.cursor]
    ELSE [stop |-> "no", cursor |-> memchr0(mem, h.cursor, buffer_end) + 1]

\* The header checksum: stop is "bad" when it does not match.
check_hcrc(mem, current_pos, h, buffer_end, flags) ==
    IF h.stop # "no" \/ ~HasFlag(flags, FHCRC) THEN h
    ELSE IF h.cursor + 2 >= buffer_end
    THEN [stop |-> "break", cursor |-> h.cursor]
    ELSE IF load_u16_le(mem, h.cursor)
              # zng_crc32_z(0, SubSeq(mem, current_pos + 1, h.cursor)) % 65536
    THEN [stop |-> "bad", cursor |-> h.cursor]
    ELSE [stop |-> "no", cursor |-> h.cursor + 2]

skip_header_fields(mem, current_pos, buffer_end, flags) ==
    check_hcrc(mem, current_pos,
               skip_string(mem,
                           skip_string(mem,
                                       skip_extra(mem, current_pos + 10,
                                                  buffer_end, flags),
                                       buffer_end, flags, FNAME),
                           buffer_end, flags, FCOMMENT),
               buffer_end, flags)

\* How the inner loop of read_into_buffer is left: by a return of the bytes
\* written, by an error, or by a break that asks for more input.  The local
\* current_pos is part of the result: self.current_pos is only written on
\* the paths that save it.
LoopExit(self, stop, current_pos, out, out_buffer_size, exc) ==
    [self |-> self, stop |-> stop, current_pos |-> current_pos, out |-> out,
     out_buffer_size |-> out_buffer_size, exc |-> exc]

\* Mutant: the length in the trailer is compared with the bytes decompressed
\* since the reader was opened.
trailer_phase_total_length(self, current_pos, out, out_buffer_size) ==
    IF self.buffer_end - current_pos < 8
    THEN LoopExit(self, "break", current_pos, out, out_buffer_size, "none")
    ELSE IF load_u32_le(self.input_buffer, current_pos) # self.crc
    THEN LoopExit(self, "error", current_pos + 4, out, out_buffer_size,
                  "BadGzipFile")
    ELSE IF load_u32_le(self.input_buffer, current_pos + 4) # Low32(self._pos)
    THEN LoopExit(self, "error", current_pos + 8, out, out_buffer_size,
                  "BadGzipFile")
    ELSE LoopExit([self EXCEPT !.stream_phase = GzipReader_NULL_BYTES],
                  "next", current_pos + 8, out, out_buffer_size, "none")

\* Mutant: the trailer is taken field by field, the checksum as soon as its
\* four bytes are in the buffer.
trailer_phase_by_field(self, current_pos, out, out_buffer_size) ==
    IF self.buffer_end - current_pos < 4
    THEN LoopExit(self, "break", current_pos, out, out_buffer_size, "none")
    ELSE IF load_u32_le(self.input_buffer, current_pos) # self.crc
    THEN LoopExit(self, "error", current_pos + 4, out, out_buffer_size,
                  "BadGzipFile")
    ELSE LoopExit(self, "break", current_pos + 4, out, out_buffer_size,
                  "none")

\* case GzipReader_TRAILER up to the phase change.
trailer_phase(self, current_pos, out, out_buffer_size) ==
    IF self.buffer_end - current_pos < 8
    THEN LoopExit(self, "break", current_pos, out, out_buffer_size, "none")
    ELSE IF load_u32_le(self.input_buffer, current_pos) # self.crc
    THEN LoopExit(self, "error", current_pos + 4, out, out_buffer_size,
                  "BadGzipFile")
    ELSE IF load_u32_le(self.input_buffer, current_pos + 4)
              # Low32(self.zst.st.total_out)
    THEN LoopExit(self, "error", current_pos + 8, out, out_buffer_size,
                  "BadGzipFile")
    ELSE LoopExit([self EXCEPT !.stream_phase = GzipReader_NULL_BYTES],
                  "next", current_pos + 8, out, out_buffer_size, "none")

\* The offset of the first non-zero byte at or after current_pos, or
\* buffer_end.
RECURSIVE skip_null_bytes(_, _, _)
skip_null_bytes(mem, current_pos, buffer_end) ==
    IF current_pos < buffer_end /\ mem[current_pos + 1] = 0
    THEN skip_null_bytes(mem, current_pos + 1, buffer_end)
    ELSE current_pos

\* Mutant: the zero bytes after a trailer are not skipped.
null_bytes_phase_no_skip(self, current_pos, out, out_buffer_size) ==
    IF current_pos = self.buffer_end
    THEN LoopExit(self, "break", current_pos, out, out_buffer_size, "none")
    ELSE LoopExit([self EXCEPT !.stream_phase = GzipReader_HEADER],
                  "next", current_pos, out, out_buffer_size, "none")

\* case GzipReader_NULL_BYTES.
null_bytes_phase(self, current_pos, out, out_buffer_size) ==
    Let(skip_null_bytes(self.input_buffer, current_pos, self.buffer_end),
        LAMBDA p :
    IF p = self.buffer_end
    THEN LoopExit(self, "break", p, out, out_buffer_size, "none")
    ELSE LoopExit([self EXCEPT !.stream_phase = GzipReader_HEADER],
                  "next", p, out, out_buffer_size, "none"))

\* case GzipReader_HEADER up to the phase change.
header_phase(self, current_pos, out, out_buffer_size) ==
    LET mem == self.input_buffer
        remaining == self.buffer_end - current_pos
    IN
    IF remaining = 0 /\ self.all_bytes_read
    THEN LoopExit([self EXCEPT !._size = self._pos,
                               !.current_pos = current_pos],
                  "return", current_pos, out, out_buffer_size, "none")
    ELSE IF remaining < 10
    THEN LoopExit(self, "break", current_pos, out, out_buffer_size, "none")
    ELSE IF ~(mem[current_pos + 1] = 31 /\ mem[current_pos + 2] = 139)
    THEN LoopExit(self, "error", current_pos, out, out_buffer_size,
                  "BadGzipFile")
    ELSE IF mem[current_pos + 3] # 8
    THEN LoopExit(self, "error", current_pos, out, out_buffer_size,
                  "BadGzipFile")
    ELSE
    Let(skip_header_fields(mem, current_pos, self.buffer_end,
                           mem[current_pos + 4]),
        LAMBDA h :
    Let([self EXCEPT !._last_mtime = load_u32_le(mem, current_pos + 4)],
        LAMBDA seen :
    IF h.stop = "break"
    THEN LoopExit(seen, "break", current_pos, out, out_buffer_size, "none")
    ELSE IF h.stop = "bad"
    THEN LoopExit(seen, "error", current_pos, out, out_buffer_size,
                  "BadGzipFile")
    ELSE LoopExit([seen EXCEPT !.zst.st = zng_inflateReset(@),
                               !.crc = 0,
                               !.stream_phase = GzipReader_DEFLATE_BLOCK],
                  "next", h.cursor, out, out_buffer_size, "none")))

\* case GzipReader_DEFLATE_BLOCK up to the phase change: one inflate call.
\* stop is "next" for the fall-through to the trailer and for "continue".
deflate_block_phase(self, current_pos, out, out_buffer_size) ==
    Let(inflate([self.zst EXCEPT
                   !.next_in = current_pos,
                   !.avail_in = Py_MIN(self.buffer_end - current_pos,
                                       UINT32_MAX),
                   !.out = out,
                   !.avail_out = Py_MIN(out_buffer_size, UINT32_MAX)],
                self.input_buffer, Z_SYNC_FLUSH),
        LAMBDA r :
    IF r.err \notin {Z_OK, Z_BUF_ERROR, Z_STREAM_END}
    THEN LoopExit([self EXCEPT !.zst = r.zst], "error", current_pos, out,
                  out_buffer_size,
                  IF r.err = Z_MEM_ERROR THEN "MemoryError" ELSE "ZlibError")
    ELSE
    Let([self EXCEPT
           !.zst = r.zst,
           !.crc = zng_crc32_z(@, SubSeq(r.zst.out, Len(out) + 1,
                                         Len(r.zst.out))),
           !._pos = @ + (Len(r.zst.out) - Len(out))],
        LAMBDA written :
    Let(out_buffer_size - (Len(r.zst.out) - Len(out)), LAMBDA left :
    IF r.err # Z_STREAM_END
    THEN IF left > 0
         THEN IF r.zst.next_in = self.buffer_end
              THEN LoopExit(written, "break", r.zst.next_in, r.zst.out,
                            left, "none")
              ELSE LoopExit(written, "next", r.zst.next_in, r.zst.out,
                            left, "none")
         ELSE LoopExit([written EXCEPT !.current_pos = r.zst.next_in],
                       "return", r.zst.next_in, r.zst.out, left, "none")
    ELSE LoopExit([written EXCEPT !.stream_phase = GzipReader_TRAILER],
                  "next", r.zst.next_in, r.zst.out, left, "none"))))

\* switch (self->stream_phase) on one phase.
stream_phase_case(self, current_pos, out, out_buffer_size) ==
    IF self.stream_phase = GzipReader_HEADER
    THEN header_phase(self, current_pos, out, out_buffer_size)
    ELSE IF self.stream_phase = GzipReader_DEFLATE_BLOCK
    THEN deflate_block_phase(self, current_pos, out, out_buffer_size)
    ELSE IF self.stream_phase = GzipReader_TRAILER
    THEN trailer_phase(self, current_pos, out, out_buffer_size)
    ELSE null_bytes_phase(self, current_pos, out, out_buffer_size)

\* The inner while (1) of read_into_buffer: the phases are run one after
\* another until the loop is left.
RECURSIVE inner_loop(_, _, _, _)
inner_loop(self, current_pos, out, out_buffer_size) ==
    Let(stream_phase_case(self, current_pos, out, out_buffer_size),
        LAMBDA e :
    IF e.stop = "next"
    THEN inner_loop(e.self, e.current_pos, e.out, e.out_buffer_size)
    ELSE e)

\* Mutant: a source that is exhausted in the trailer ends the stream as one
\* exhausted in the padding does.
after_inner_loop_lenient(e) ==
    IF e.stop # "break" THEN e
    ELSE IF e.self.all_bytes_read
    THEN IF e.self.stream_phase \in {GzipReader_TRAILER, GzipReader_NULL_BYTES}
         THEN LoopExit([e.self EXCEPT !._size = e.self._pos,
                                      !.current_pos = e.current_pos],
                       "return", e.current_pos, e.out, e.out_buffer_size,
                       "none")
         ELSE LoopExit(e.self, "error", e.current_pos, e.out,
                       e.out_buffer_size, "EOFError")
    ELSE LoopExit([e.self EXCEPT !.current_pos = e.current_pos],
                  "read_from_file", e.current_pos, e.out, e.out_buffer_size,
                  "none")

\* Mutant: the end of the stream met in the padding is reported without
\* the size of the stream being recorded.
after_inner_loop_unrecorded(e) ==
    IF e.stop # "break" THEN e
    ELSE IF e.self.all_bytes_read
    THEN IF e.self.stream_phase = GzipReader_NULL_BYTES
         THEN LoopExit([e.self EXCEPT !.current_pos = e.current_pos],
                       "return", e.current_pos, e.out, e.out_buffer_size,
                       "none")
         ELSE LoopExit(e.self, "error", e.current_pos, e.out,
                       e.out_buffer_size, "EOFError")
    ELSE LoopExit([e.self EXCEPT !.current_pos = e.current_pos],
                  "read_from_file", e.current_pos, e.out, e.out_buffer_size,
                  "none")

\* read_into_buffer after its inner loop was left as "e" says: a break
\* leads to the end of the stream, to EOFError or to read_from_file.
after_inner_loop(e) ==
    IF e.stop # "break" THEN e
    ELSE IF e.self.all_bytes_read
    THEN IF e.self.stream_phase = GzipReader_NULL_BYTES
         THEN LoopExit([e.self EXCEPT !._size = e.self._pos,
                                      !.current_pos = e.current_pos],
                       "return", e.current_pos, e.out, e.out_buffer_size,
                       "none")
         ELSE LoopExit(e.self, "error", e.current_pos, e.out,
                       e.out_buffer_size, "EOFError")
    ELSE LoopExit([e.self EXCEPT !.current_pos = e.current_pos],
                  "read_from_file", e.current_pos, e.out, e.out_buffer_size,
                  "none")

\* One pass of the outer while (1) of read_into_buffer, up to the call of
\* read_from_file: stop is "return", "error" or "read_from_file".
read_into_buffer_pass(self, out, out_buffer_size) ==
    Let(inner_loop(self, self.current_pos, out, out_buffer_size),
        after_inner_loop)

\* The size of the view handed to fp.readinto by read_from_file.
read_in_size(self) ==
    LET remaining == self.buffer_end - self.current_pos IN
    (IF remaining = self.buffer_size THEN 2 * self.buffer_size
     ELSE self.buffer_size) - remaining

\* Mutant: the unread bytes are not moved to the start of the buffer.
GzipReader_read_from_file_no_memmove(self, new_size) ==
    LET remaining == self.buffer_end - self.current_pos IN
    [self EXCEPT
       !.buffer_size = IF remaining = @ THEN 2 * @ ELSE @,
       !.input_buffer = SubSeq(@, 1, remaining)
                          \o SubSeq(self.fp.data, self.fp.pos + 1,
                                    self.fp.pos + new_size),
       !.fp.pos = @ + new_size,
       !.all_bytes_read = IF new_size = 0 THEN TRUE ELSE @,
       !.current_pos = 0,
       !.buffer_end = remaining + new_size]

\* Mutant: an answer of 0 bytes is not taken as the end of the file.
GzipReader_read_from_file_no_end(self, new_size) ==
    LET remaining == self.buffer_end - self.current_pos IN
    [self EXCEPT
       !.buffer_size = IF remaining = @ THEN 2 * @ ELSE @,
       !.input_buffer = SubSeq(@, self.current_pos + 1, self.buffer_end)
                          \o SubSeq(self.fp.data, self.fp.pos + 1,
                                    self.fp.pos + new_size),
       !.fp.pos = @ + new_size,
       !.current_pos = 0,
       !.buffer_end = remaining + new_size]

\* read_from_file when fp.readinto stores new_size bytes: the unread bytes
\* are kept (in a buffer of twice the size when they fill it, else moved to
\* the start) and the new bytes follow them.
GzipReader_read_from_file(self, new_size) ==
    LET remaining == self.buffer_end - self.current_pos IN
    [self EXCEPT
       !.buffer_size = IF remaining = @ THEN 2 * @ ELSE @,
       !.input_buffer = SubSeq(@, self.current_pos + 1, self.buffer_end)
                          \o SubSeq(self.fp.data, self.fp.pos + 1,
                                    self.fp.pos + new_size),
       !.fp.pos = @ + new_size,
       !.all_bytes_read = IF new_size = 0 THEN TRUE ELSE @,
       !.current_pos = 0,
       !.buffer_end = remaining + new_size]

\* What fp.readinto may answer for a view of n bytes: 0 only at the end of
\* the file, else any count up to n and up to what the file still holds.
ReadintoCounts(fp, n) ==
    IF fp.pos = Len(fp.data) THEN {0}
    ELSE 1..Py_MIN(n, Len(fp.data) - fp.pos)

SEEK_SET == 0
SEEK_CUR == 1
SEEK_END == 2

\* The temporary buffer seek reads into (8 * 1024 in the source).
tmp_buffer_size == 2

\* A call of a GzipReader method in progress: the method, its locals, and
\* the output buffer of the read_into_buffer call it is in.
Frame(api, out_buffer_size, chunk_size, offset, stage) ==
    [api |-> api, out |-> <<>>, out_buffer_size |-> out_buffer_size,
     chunk_size |-> chunk_size, chunk_list |-> <<>>, offset |-> offset,
     stage |-> stage]

NoFrame == Frame("none", 0, 0, 0, "none")

Suspended(self, frame) ==
    [self |-> self, frame |-> frame, status |-> "read_from_file",
     res |-> NoResult]

Finished(self, res) ==
    [self |-> self, frame |-> NoFrame, status |-> "done", res |-> res]

\* The next read_into_buffer call of the same method.
Again(frame, out_buffer_size) ==
    [frame EXCEPT !.out = <<>>, !.out_buffer_size = out_buffer_size]

\* A method of the reader from a call of read_into_buffer on: it runs until
\* read_from_file has to ask the file for bytes ("read_from_file", to be
\* resumed with the same frame) or until the method returns ("done").
RECURSIVE RunCall(_, _)
RECURSIVE seek_to(_, _)

\* GzipReader_seek after the read-and-discard loop has received "written".
seek_loop(self, frame, written) ==
    IF Len(written) = 0 THEN Finished(self, Return(self._pos))
    ELSE IF frame.offset - Len(written) > 0
    THEN RunCall(self, [Again(frame, Py_MIN(tmp_buffer_size,
                                           frame.offset - Len(written)))
                          EXCEPT !.offset = @ - Len(written)])
    ELSE Finished(self, Return(self._pos))

\* GzipReader_readall after a chunk has been read.
readall_loop(self, frame, written) ==
    IF frame.stage = "first"
    THEN IF Len(written) < frame.chunk_size
         THEN Finished(self, Return(written))
         ELSE RunCall(self, [Again(frame, frame.chunk_size)
                               EXCEPT !.stage = "list",
                                      !.chunk_list = written])
    ELSE IF Len(written) = 0
    THEN Finished(self, Return(frame.chunk_list))
    ELSE RunCall(self, [Again(frame, frame.chunk_size)
                          EXCEPT !.chunk_list = @ \o written])

RunCall(self, frame) ==
    Let(read_into_buffer_pass(self, frame.out, frame.out_buffer_size),
        LAMBDA e :
    IF e.stop = "read_from_file"
    THEN Suspended(e.self, [frame EXCEPT !.out = e.out,
                                         !.out_buffer_size = e.out_buffer_size])
    ELSE IF e.stop = "error" THEN Finished(e.self, Raise(e.exc))
    ELSE IF frame.api \in {"readinto", "read"}
    THEN Finished(e.self, Return(e.out))
    ELSE IF frame.api = "readall" THEN readall_loop(e.self, frame, e.out)
    ELSE IF frame.stage = "size"
    THEN IF Len(e.out) = 0
         THEN seek_to(e.self, e.self._size + frame.offset)
         ELSE RunCall(e.self, Again(frame, tmp_buffer_size))
    ELSE seek_loop(e.self, frame, e.out))

\* GzipReader_seek from "Make it so that offset is the number of bytes to
\* skip forward" on, offset being the absolute target.  A source without a
\* seek method (the in-memory buffer) makes the rewind fail.
seek_to_keeping_pos(self, offset) ==
    IF offset < self._pos
    THEN IF self.memview THEN Finished(self, Raise("AttributeError"))
         ELSE Let([self EXCEPT !.fp.pos = 0,
                               !.stream_phase = GzipReader_HEADER,
                               !.all_bytes_read = FALSE,
                               !.zst.st = zng_inflateReset(@)],
                  LAMBDA rewound :
              IF offset > 0
              THEN RunCall(rewound,
                           Frame("seek", Py_MIN(tmp_buffer_size, offset), 0,
                                 offset, "skip"))
              ELSE Finished(rewound, Return(rewound._pos)))
    ELSE IF offset - self._pos > 0
    THEN RunCall(self, Frame("seek",
                             Py_MIN(tmp_buffer_size, offset - self._pos), 0,
                             offset - self._pos, "skip"))
    ELSE Finished(self, Return(self._pos))

seek_to(self, offset) ==
    IF offset < self._pos
    THEN IF self.memview THEN Finished(self, Raise("AttributeError"))
         ELSE Let([self EXCEPT !.fp.pos = 0,
                               !.stream_phase = GzipReader_HEADER,
                               !._pos = 0,
                               !.all_bytes_read = FALSE,
                               !.zst.st = zng_inflateReset(@)],
                  LAMBDA rewound :
              IF offset > 0
              THEN RunCall(rewound,
                           Frame("seek", Py_MIN(tmp_buffer_size, offset), 0,
                                 offset, "skip"))
              ELSE Finished(rewound, Return(rewound._pos)))
    ELSE IF offset - self._pos > 0
    THEN RunCall(self, Frame("seek",
                             Py_MIN(tmp_buffer_size, offset - self._pos), 0,
                             offset - self._pos, "skip"))
    ELSE Finished(self, Return(self._pos))

GzipReader_seek(self, offset, whence) ==
    IF whence = SEEK_SET THEN seek_to(self, offset)
    ELSE IF whence = SEEK_CUR THEN seek_to(self, self._pos + offset)
    ELSE IF whence = SEEK_END
    THEN IF self._size < 0
         THEN RunCall(self, Frame("seek", tmp_buffer_size, 0, offset, "size"))
         ELSE seek_to(self, self._size + offset)
    ELSE Finished(self, Raise("ValueError"))

\* readinto(buffer_obj), the buffer having room for n bytes: the result is
\* the bytes written into it.
GzipReader_readinto(self, n) == RunCall(self, Frame("readinto", n, 0, 0, "none"))

GzipReader_readall(self) ==
    RunCall(self, Frame("readall", self.buffer_size * 4,
                        self.buffer_size * 4, 0, "first"))

GzipReader_read(self, size) ==
    IF size < 0 THEN GzipReader_readall(self)
    ELSE IF size = 0 THEN Finished(self, Return(<<>>))
    ELSE RunCall(self, Frame("read", Py_MIN(self.buffer_size * 10, size), 0,
                             0, "none"))

(***************************************************************************)
(* Gzip inputs: members as a gzip writer lays them out (RFC 1952), zero    *)
(* padding, and damaged streams.                                           *)
(***************************************************************************)
store_u16_le(n) == <<n % 256, (n \div 256) % 256>>

store_u32_le(n) ==
    <<n % 256, (n \div 256) % 256, (n \div 65536) % 256,
      (n \div 16777216) % 256>>

GzipExtra == <<5>>
GzipName == <<7>>
GzipComment == <<9>>

\* The header of a member: the ten fixed bytes (magic, method 8, flags, a
\* zero mtime, xfl, os) and the optional fields its flags announce.
gzip_header(flags) ==
    LET head == <<31, 139, 8, flags>> \o store_u32_le(0) \o <<0, 3>>
                  \o (IF HasFlag(flags, FEXTRA)
                      THEN store_u16_le(Len(GzipExtra)) \o GzipExtra
                      ELSE <<>>)
                  \o (IF HasFlag(flags, FNAME) THEN GzipName \o <<0>>
                      ELSE <<>>)
                  \o (IF HasFlag(flags, FCOMMENT) THEN GzipComment \o <<0>>
                      ELSE <<>>)
    IN head \o (IF HasFlag(flags, FHCRC)
                THEN store_u16_le(zng_crc32_z(0, head) % 65536) ELSE <<>>)

gzip_member(payload, flags) ==
    gzip_header(flags)
      \o zlib_compress_impl(payload, 6, -MAX_WBITS).value
      \o store_u32_le(zng_crc32_z(0, payload))
      \o store_u32_le(Low32(Len(payload)))

Zeros(n) == [i \in 1..n |-> 0]

\* The longest zero padding after a member.
MaxPad == 2

GzPayloads == {<<>>, <<1, 1, 0, 0>>}

GzFlags == {0, FEXTRA + FNAME + FCOMMENT + FHCRC}

\* Members followed by k zero bytes.
PaddedMembers(k) ==
    {[data |-> gzip_member(p, f) \o Zeros(k), plain |-> p] :
        p \in GzPayloads, f \in GzFlags}

GzMembers == PaddedMembers(0) \cup PaddedMembers(MaxPad)

\* Streams of one member and of two members, without padding and with
\* padding after each member.
GzStreams ==
    GzMembers
    \cup {[data |-> m.first.data \o m.second.data,
           plain |-> m.first.plain \o m.second.plain] :
             m \in UNION {[first : PaddedMembers(k), second : PaddedMembers(k)] :
                             k \in {0, MaxPad}}}

\* A stream cut short, and a stream with one byte changed.
Truncated(s) == {Take(s, i) : i \in 0..(Len(s) - 1)}

Corrupted(s) == {[s EXCEPT ![i] = (@ + 1) % 128] : i \in 1..Len(s)}

(***************************************************************************)
(* State.                                                                  *)
(***************************************************************************)
VARIABLES
    os,     \* the one-shot round trip: its arguments, results and position
    ss,     \* a Compress object and a Decompress object fed in pieces
    zd,     \* a decompressor called with an output cap
    gr,     \* a GzipReader, its byte source and the calls made on it
    lk,     \* instance locks and the threads calling into the instances
    lc,     \* one session object and the calls made on it, in any order
    pz,     \* _ParallelCompress objects and the blocks given to them
    gp,     \* a GzipReader followed phase by phase through its reads
    dc,     \* a decompressor of a stream made with a preset dictionary
    cp,     \* the sessions of a copy scenario
    ab      \* an output buffer arranged and written in turns

vars == <<os, ss, zd, gr, lk, lc, pz, gp, dc, cp, ab>>

\* The value of a variable in a specification that does not use it.
Idle == [pc |-> "idle"]

(***************************************************************************)
(* The one-shot round trip: compress(b, level, wbits), then                *)
(* decompress(result, wbits, bufsize).                                     *)
(***************************************************************************)
PayloadBytes == 0..1

WbitsChoices == {-MAX_WBITS, MAX_WBITS, MAX_WBITS + 16}

InitOneShot ==
    \E b \in SeqsUpTo(PayloadBytes, MaxPayload), level \in 0..9,
       wbits \in WbitsChoices, bufsize \in 0..DEF_BUF_SIZE :
        /\ os = [pc |-> "start", b |-> b, level |-> level, wbits |-> wbits,
                 bufsize |-> bufsize, comp |-> NoResult, dec |-> NoResult]
        /\ ss = Idle
        /\ zd = Idle
        /\ gr = Idle
        /\ lk = Idle
        /\ lc = Idle
        /\ pz = Idle
        /\ gp = Idle
        /\ dc = Idle
        /\ cp = Idle
        /\ ab = Idle

OneShotCompress ==
    /\ os.pc = "start"
    /\ os' = [os EXCEPT !.pc = "compressed",
                        !.comp = zlib_compress_impl(os.b, os.level, os.wbits)]
    /\ UNCHANGED <<ss, zd, gr, lk, lc, pz, gp, dc, cp, ab>>

OneShotDecompress ==
    /\ os.pc = "compressed"
    /\ os.comp.ok
    /\ os' = [os EXCEPT !.pc = "done",
                        !.dec = zlib_decompress_impl(os.comp.value, os.wbits,
                                                     os.bufsize)]
    /\ UNCHANGED <<ss, zd, gr, lk, lc, pz, gp, dc, cp, ab>>

NextOneShot == OneShotCompress \/ OneShotDecompress

SpecOneShot == InitOneShot /\ [][NextOneShot]_vars

\* C1: for every byte sequence b, every level 0..9 and every window-bits
\* setting in {raw, zlib, gzip}, decompress(compress(b, level, wbits), wbits)
\* returns exactly b; and compress itself never fails.
C1_RoundTrip ==
    /\ os.pc = "compressed" => os.comp.ok
    /\ os.pc = "done" => os.dec.ok /\ os.dec.value = os.b

\* A round trip whose payload does not fit one input window nor the initial
\* output buffer has completed.
C1_Witness ==
    /\ os.pc = "done"
    /\ Len(os.b) > UINT32_MAX
    /\ Len(os.comp.value) > DEF_BUF_SIZE
    /\ os.dec.value = os.b

(***************************************************************************)
(* Incremental sessions: b is fed to a Compress object in pieces and the   *)
(* object is finished with flush(Z_FINISH); the stream so produced is fed  *)
(* to a Decompress object in pieces, followed by flush().                  *)
(***************************************************************************)
LevelChoices == {0, 6}

InitSession ==
    \E b \in SeqsUpTo(PayloadBytes, MaxPayload), level \in LevelChoices,
       wbits \in WbitsChoices :
        /\ ss = [pc |-> "compress", b |-> b, level |-> level, wbits |-> wbits,
                 cobj |-> zlib_compressobj_impl(level, wbits, NoZdict),
                 dobj |-> zlib_decompressobj_impl(wbits, NoZdict),
                 rest |-> b, pieces |-> 0, stream |-> <<>>, plain |-> <<>>,
                 ok |-> TRUE]
        /\ os = Idle
        /\ zd = Idle
        /\ gr = Idle
        /\ lk = Idle
        /\ lc = Idle
        /\ pz = Idle
        /\ gp = Idle
        /\ dc = Idle
        /\ cp = Idle
        /\ ab = Idle

\* Compress.compress(piece) for the next piece of b, of any length.
SessionCompress ==
    /\ ss.pc = "compress"
    /\ ss.rest # <<>>
    /\ \E n \in 0..Len(ss.rest) :
         Let(zlib_Compress_compress_impl(ss.cobj, Take(ss.rest, n)), LAMBDA r :
         ss' = [ss EXCEPT !.cobj = r.self, !.rest = Drop(@, n),
                          !.pieces = IF n = 0 THEN @ ELSE Py_MIN(@ + 1, 2),
                          !.stream = @ \o r.res.value,
                          !.ok = @ /\ r.res.ok])
    /\ UNCHANGED <<os, zd, gr, lk, lc, pz, gp, dc, cp, ab>>

\* Compress.flush(Z_FINISH) once all of b has been passed.
SessionFinish ==
    /\ ss.pc = "compress"
    /\ ss.rest = <<>>
    /\ Let(zlib_Compress_flush_impl(ss.cobj, Z_FINISH), LAMBDA r :
       ss' = [ss EXCEPT !.cobj = r.self, !.pc = "decompress",
                        !.stream = @ \o r.res.value,
                        !.rest = ss.stream \o r.res.value,
                        !.ok = @ /\ r.res.ok])
    /\ UNCHANGED <<os, zd, gr, lk, lc, pz, gp, dc, cp, ab>>

\* Decompress.decompress(piece) for the next piece of the stream.
SessionDecompress ==
    /\ ss.pc = "decompress"
    /\ ss.rest # <<>>
    /\ \E n \in 0..Len(ss.rest) :
         Let(zlib_Decompress_decompress_impl(ss.dobj, Take(ss.rest, n), 0),
             LAMBDA r :
         ss' = [ss EXCEPT !.dobj = r.self, !.rest = Drop(@, n),
                          !.pieces = IF n = 0 THEN @ ELSE Py_MIN(@ + 1, 4),
                          !.plain = @ \o r.res.value,
                          !.ok = @ /\ r.res.ok])
    /\ UNCHANGED <<os, zd, gr, lk, lc, pz, gp, dc, cp, ab>>

\* Decompress.flush() once all of the stream has been passed.
SessionFlush ==
    /\ ss.pc = "decompress"
    /\ ss.rest = <<>>
    /\ Let(zlib_Decompress_flush_impl(ss.dobj, DEF_BUF_SIZE), LAMBDA r :
       ss' = [ss EXCEPT !.dobj = r.self, !.pc = "done",
                        !.plain = @ \o r.res.value,
                        !.ok = @ /\ r.res.ok])
    /\ UNCHANGED <<os, zd, gr, lk, lc, pz, gp, dc, cp, ab>>

NextSession ==
    SessionCompress \/ SessionFinish \/ SessionDecompress \/ SessionFlush

SpecSession == InitSession /\ [][NextSession]_vars

\* C3: however the input is cut into pieces, the results of the successive
\* Compress.compress(piece) calls followed by flush(Z_FINISH), concatenated,
\* are the one-shot compress result, a complete stream; and the results of the
\* successive Decompress.decompress(piece) calls over that stream followed by
\* flush(), concatenated, are the one-shot decompress result, which is the
\* input.  No call raises.
C3_ChunkedEqualsOneShot ==
    /\ ss.pc # "idle" => ss.ok
    /\ ss.pc \in {"decompress", "done"} =>
          /\ zlib_compress_impl(ss.b, ss.level, ss.wbits) = Return(ss.stream)
          /\ ~ss.cobj.is_initialised
    /\ ss.pc = "done" =>
          /\ zlib_decompress_impl(ss.stream, ss.wbits, DEF_BUF_SIZE)
                = Return(ss.plain)
          /\ ss.plain = ss.b
          /\ ss.dobj.eof

\* Both directions were fed in several pieces: the payload in two or more,
\* the stream in four or more (so some boundary falls inside the framing).
C3_Witness ==
    /\ ss.pc = "done"
    /\ ss.pieces = 4
    /\ Len(ss.b) > UINT32_MAX
    /\ ss.plain = ss.b

(***************************************************************************)
(* Decompression under an output cap: the stream of b is given, in pieces, *)
(* to a ZlibDecompressor or to a Decompress object, every call with        *)
(* max_length = k.  A caller of Decompress passes unconsumed_tail back in  *)
(* front of the new piece, or passes empty data.                           *)
(***************************************************************************)
MaxCap == 3

IsPrefix(s, t) == Len(s) <= Len(t) /\ s = SubSeq(t, 1, Len(s))

InitCapped ==
    \E kind \in {"ZlibDecompressor", "Decompress"},
       b \in SeqsUpTo(PayloadBytes, MaxPayload), level \in LevelChoices,
       wbits \in WbitsChoices, k \in -1..MaxCap :
        /\ kind = "Decompress" => k >= 0
        /\ zd = [pc |-> "run", kind |-> kind, b |-> b, wbits |-> wbits,
                 k |-> k,
                 obj |-> IF kind = "Decompress"
                         THEN zlib_decompressobj_impl(wbits, NoZdict)
                         ELSE ZlibDecompressor__new__(wbits, NoZdict),
                 rest |-> zlib_compress_impl(b, level, wbits).value,
                 calls |-> 0, all_first |-> FALSE, acc |-> <<>>,
                 last |-> NoResult, room |-> 0, capped |-> 0]
        /\ os = Idle
        /\ ss = Idle
        /\ gr = Idle
        /\ lk = Idle
        /\ lc = Idle
        /\ pz = Idle
        /\ gp = Idle
        /\ dc = Idle
        /\ cp = Idle
        /\ ab = Idle

\* What a call leaves in the scenario's record; n bytes of the stream were
\* supplied.
AfterCall(n, r, room, capped) ==
    zd' = [zd EXCEPT !.obj = r.self, !.rest = Drop(@, n),
                     !.calls = Py_MIN(@ + 1, 2),
                     !.all_first = IF zd.calls = 0 THEN n = Len(zd.rest)
                                   ELSE @,
                     !.acc = @ \o r.res.value, !.last = r.res,
                     !.room = room, !.capped = capped]

\* ZlibDecompressor.decompress(piece, max_length = k).
CappedZlibDecompressor ==
    /\ zd.pc = "run" /\ zd.kind = "ZlibDecompressor"
    /\ zd.calls = 0 \/ zd.last.ok
    /\ \E n \in 0..Len(zd.rest) :
         Let(zlib_ZlibDecompressor_decompress(zd.obj, Take(zd.rest, n), zd.k),
             LAMBDA r : AfterCall(n, r, r.room, r.capped))
    /\ UNCHANGED <<os, ss, gr, lk, lc, pz, gp, dc, cp, ab>>

\* Decompress.decompress(unconsumed_tail + piece, max_length = k).
CappedDecompress ==
    /\ zd.pc = "run" /\ zd.kind = "Decompress"
    /\ zd.calls = 0 \/ zd.last.ok
    /\ ~zd.obj.eof
    /\ \E n \in 0..Len(zd.rest) :
         Let(zlib_Decompress_decompress_impl(
                 zd.obj, zd.obj.unconsumed_tail \o Take(zd.rest, n), zd.k),
             LAMBDA r : AfterCall(n, r, 0, 0))
    /\ UNCHANGED <<os, ss, gr, lk, lc, pz, gp, dc, cp, ab>>

\* Decompress.decompress(b"", max_length = k) while input is unconsumed.
CappedDecompressEmpty ==
    /\ zd.pc = "run" /\ zd.kind = "Decompress"
    /\ zd.calls > 0 /\ zd.last.ok
    /\ ~zd.obj.eof
    /\ zd.obj.unconsumed_tail # <<>>
    /\ Let(zlib_Decompress_decompress_impl(zd.obj, <<>>, zd.k),
           LAMBDA r : AfterCall(0, r, 0, 0))
    /\ UNCHANGED <<os, ss, gr, lk, lc, pz, gp, dc, cp, ab>>

NextCapped ==
    CappedZlibDecompressor \/ CappedDecompress \/ CappedDecompressEmpty

SpecCapped == InitCapped /\ [][NextCapped]_vars

\* C6: ZlibDecompressor.decompress(data, max_length = k) with 0 < k <
\* len(uncompressed data), followed by calls with empty input and the same
\* k, reconstructs the output: no call fails, what has been returned so far
\* is always a prefix of the uncompressed data, every call short of the end
\* of the stream returns k bytes, and at the end of the stream all of the
\* data has been returned.
C6_CapReconstructs ==
    (/\ zd.pc = "run" /\ zd.kind = "ZlibDecompressor"
     /\ 0 < zd.k /\ zd.k < Len(zd.b)
     /\ zd.calls > 0 /\ zd.all_first)
    => /\ zd.last.ok
       /\ IsPrefix(zd.acc, zd.b)
       /\ zd.obj.eof => zd.acc = zd.b
       /\ ~zd.obj.eof => Len(zd.last.value) = zd.k

\* C7: a call with max_length = k returns at most k bytes (k >= 0 for a
\* ZlibDecompressor, k > 0 for a Decompress object), and no call of the
\* codec by ZlibDecompressor.decompress announces output space that reaches
\* beyond the first k bytes of the output buffer.
C7_CapRespected ==
    (zd.pc = "run" /\ zd.calls > 0)
    => /\ (zd.kind = "ZlibDecompressor" /\ zd.k >= 0)
            => Len(zd.last.value) <= zd.k /\ zd.room <= zd.k
       /\ (zd.kind = "Decompress" /\ zd.k > 0)
            => Len(zd.last.value) <= zd.k

\* A ZlibDecompressor call reached its cap while input beyond the current
\* input window was pending, so that further input rounds found the output
\* buffer at its limit.
C7_Witness ==
    /\ zd.pc = "run" /\ zd.kind = "ZlibDecompressor"
    /\ zd.k > 0 /\ zd.calls > 0
    /\ zd.capped >= 2
    /\ Len(zd.last.value) = zd.k

(***************************************************************************)
(* Specification SpecGzip: a GzipReader over a file is read to the end,    *)
(* by readall or by readinto calls, the file answering each readinto of    *)
(* read_from_file with any count it may; the same input read from an       *)
(* in-memory buffer is the reference.                                      *)
(***************************************************************************)
MaxBufferSize == 2
MaxRead == 4

\* The reading of a reader to the end by a driver that cannot be suspended
\* (the in-memory reader never calls read_from_file): the bytes delivered
\* and the outcome, "end" or the error raised.
RECURSIVE DriveMemory(_, _, _, _)
DriveMemory(self, driver, n, acc) ==
    Let(IF driver = "readall" THEN GzipReader_readall(self)
        ELSE GzipReader_readinto(self, n),
        LAMBDA r :
    IF ~r.res.ok THEN [acc |-> acc, outcome |-> r.res.exc]
    ELSE IF driver = "readall"
    THEN [acc |-> acc \o r.res.value, outcome |-> "end"]
    ELSE IF r.res.value = <<>> THEN [acc |-> acc, outcome |-> "end"]
    ELSE DriveMemory(r.self, driver, n, acc \o r.res.value))

NewReading(input, valid, is_file, buffer_size, driver, n) ==
    [pc |-> "idle", data |-> input.data, plain |-> input.plain,
     valid |-> valid, driver |-> driver, n |-> n,
     self |-> GzipReader__new__(input.data, is_file, buffer_size),
     frame |-> NoFrame, api |-> "none", acc |-> <<>>, outcome |-> "running",
     expect |-> DriveMemory(GzipReader__new__(input.data, FALSE, 0),
                            driver, n, <<>>),
     target |-> -1, sought |-> FALSE, after |-> <<>>]

\* The reading after a method has returned "res".
Complete(g, res) ==
    IF ~res.ok THEN [g EXCEPT !.pc = "finished", !.outcome = res.exc]
    ELSE IF g.api = "seek"
    THEN [g EXCEPT !.pc = "idle", !.outcome = "running", !.sought = TRUE,
                   !.after = <<>>]
    ELSE IF g.api = "readall"
    THEN [g EXCEPT !.pc = "finished", !.outcome = "end",
                   !.acc = @ \o res.value, !.after = @ \o res.value]
    ELSE IF res.value = <<>>
    THEN [g EXCEPT !.pc = "finished", !.outcome = "end"]
    ELSE [g EXCEPT !.pc = "idle",
                   !.acc = @ \o res.value, !.after = @ \o res.value]

\* The reading after a method has run up to read_from_file or to its end.
AfterRun(g, r) ==
    IF r.status = "read_from_file"
    THEN [g EXCEPT !.pc = "read_from_file", !.self = r.self,
                   !.frame = r.frame]
    ELSE Complete([g EXCEPT !.self = r.self, !.frame = NoFrame], r.res)

\* The streams that are cut short and corrupted.
DamageBases == {m \in GzMembers : Len(m.plain) > 0 /\ m.data[Len(m.data)] = 0}

GzInputs ==
    {[input |-> s, valid |-> TRUE] : s \in GzStreams}
    \cup {[input |-> [data |-> d, plain |-> <<>>], valid |-> FALSE] :
             d \in UNION {Truncated(s.data) \cup Corrupted(s.data) :
                             s \in DamageBases}}

InitGzip ==
    \E i \in GzInputs, buffer_size \in 1..MaxBufferSize,
       driver \in {"readall", "readinto"}, n \in {1, MaxRead} :
        /\ driver = "readall" => n = 1
        /\ gr = NewReading(i.input, i.valid, TRUE, buffer_size, driver, n)
        /\ os = Idle
        /\ ss = Idle
        /\ zd = Idle
        /\ lk = Idle
        /\ lc = Idle
        /\ pz = Idle
        /\ gp = Idle
        /\ dc = Idle
        /\ cp = Idle
        /\ ab = Idle

\* A readall or readinto call on the reader.
GzCall ==
    /\ gr.pc = "idle"
    /\ gr' = AfterRun([gr EXCEPT !.api = gr.driver],
                      IF gr.driver = "readall"
                      THEN GzipReader_readall(gr.self)
                      ELSE GzipReader_readinto(gr.self, gr.n))
    /\ UNCHANGED <<os, ss, zd, lk, lc, pz, gp, dc, cp, ab>>

\* fp.readinto answers, read_from_file returns and the method goes on.
GzReadFromFile ==
    /\ gr.pc = "read_from_file"
    /\ \E new_size \in ReadintoCounts(gr.self.fp, read_in_size(gr.self)) :
          gr' = AfterRun(gr, RunCall(GzipReader_read_from_file(gr.self,
                                                               new_size),
                                     gr.frame))
    /\ UNCHANGED <<os, ss, zd, lk, lc, pz, gp, dc, cp, ab>>

NextGzip == GzCall \/ GzReadFromFile

SpecGzip == InitGzip /\ [][NextGzip]_vars

\* C2: reading a GzipReader to the end over N >= 1 concatenated members,
\* with or without zero padding after each, yields the concatenation of the
\* payloads and raises no error, from a file and from an in-memory buffer.
C2_MultiMember ==
    gr.valid =>
        /\ gr.expect = [acc |-> gr.plain, outcome |-> "end"]
        /\ gr.outcome \in {"running", "end"}
        /\ IsPrefix(gr.acc, gr.plain)
        /\ gr.pc = "finished" => gr.acc = gr.plain

C2_Witness ==
    /\ gr.valid /\ gr.pc = "finished" /\ gr.outcome = "end"
    /\ Len(gr.plain) > UINT32_MAX /\ gr.acc = gr.plain
    /\ \E k \in 1..Len(gr.data) : gr.data[k] = 0 /\ k > Len(gr.data) - MaxPad

\* C4 (as claimed): whatever the initial buffer size and however the file
\* splits the input, the bytes delivered and the outcome are those of the
\* in-memory reading.
C4_FileAsMemory ==
    gr.pc = "finished" =>
        /\ gr.acc = gr.expect.acc
        /\ gr.outcome = gr.expect.outcome

\* C4 (amended): whatever the initial buffer size and however the file
\* splits the input, the outcome (clean end or the error kind) is that of
\* the in-memory reading; the bytes delivered are the same when the reading
\* ends cleanly, and when it fails the file reading has delivered the bytes
\* of the in-memory reading and possibly more of the decompressed data
\* before the error.
C4_FileAsMemoryAmended ==
    /\ gr.pc = "finished" =>
          /\ gr.outcome = gr.expect.outcome
          /\ IsPrefix(gr.expect.acc, gr.acc)
          /\ gr.outcome = "end" => gr.acc = gr.expect.acc
    /\ gr.driver = "readall" /\ gr.pc = "finished" => gr.acc = gr.expect.acc

C4_Witness ==
    /\ gr.pc = "finished" /\ gr.outcome = "end"
    /\ gr.acc = gr.expect.acc /\ Len(gr.acc) > UINT32_MAX
    /\ HasFlag(gr.data[4], FHCRC) /\ gr.self.buffer_size > 4 * MaxBufferSize

(***************************************************************************)
(* Specification SpecSeek: a GzipReader over a file or over an in-memory   *)
(* buffer is read by readinto calls; at any moment between two calls, or   *)
(* after the end of the stream has been reported, seek(t) is called once,  *)
(* and the reading goes on to the end.                                     *)
(***************************************************************************)
SeekStreams ==
    {[data |-> m.data \o m.data, plain |-> m.plain \o m.plain] :
        m \in {x \in GzMembers : x.plain # <<>> /\ x.data[4] = 0}}

InitSeek ==
    \E s \in SeekStreams, is_file \in BOOLEAN,
       buffer_size \in 1..MaxBufferSize, n \in {1, MaxRead} :
        /\ ~is_file => buffer_size = 1
        /\ gr = NewReading(s, TRUE, is_file, buffer_size, "readinto", n)
        /\ os = Idle
        /\ ss = Idle
        /\ zd = Idle
        /\ lk = Idle
        /\ lc = Idle
        /\ pz = Idle
        /\ gp = Idle
        /\ dc = Idle
        /\ cp = Idle
        /\ ab = Idle

\* seek(t) with the default whence, for an offset within the stream.
GzSeek ==
    /\ gr.pc \in {"idle", "finished"}
    /\ gr.outcome \in {"running", "end"}
    /\ gr.target = -1
    /\ \E t \in 0..Len(gr.plain) :
          gr' = AfterRun([gr EXCEPT !.api = "seek", !.target = t],
                         GzipReader_seek(gr.self, t, SEEK_SET))
    /\ UNCHANGED <<os, ss, zd, lk, lc, pz, gp, dc, cp, ab>>

NextSeek == GzCall \/ GzReadFromFile \/ GzSeek

SpecSeek == InitSeek /\ [][NextSeek]_vars

\* C5: seek(t) for t in [0, S], called in any state of the reader, succeeds,
\* and the reading to the end that follows it yields the stream's bytes
\* from offset t on.
C5_SeekThenRead ==
    (gr.target >= 0 /\ gr.pc = "finished") =>
        /\ gr.sought
        /\ gr.outcome = "end"
        /\ gr.after = Drop(gr.plain, gr.target)

(***************************************************************************)
(* Specification SpecLock: threads call the methods of one shared          *)
(* instance.  A thread runs without interruption except where the source   *)
(* lets other threads run: while it waits in ENTER_ZLIB for a lock that is *)
(* taken, and around the codec calls of a method.  The data are left out:  *)
(* what a codec call returns is a choice.                                  *)
(*                                                                         *)
(* The lock is the number of acquisitions it admits: 1 when free, 0 when   *)
(* taken.  A thread is [pc, op, arg, holds, chunks]: pc "enter" is the     *)
(* wait in ENTER_ZLIB, "codec" the part of a method that drives the codec  *)
(* or the reader's state machine; holds says that this call has acquired   *)
(* the lock and not released it; chunks counts the read_into_buffer calls  *)
(* of a readall or a seek.                                                 *)
(***************************************************************************)
NumThreads == 2
MaxChunks == 2
MaxPermits == 2

Threads == 1..NumThreads

IdleThread ==
    [pc |-> "idle", op |-> "none", arg |-> 0, holds |-> FALSE, chunks |-> 0]

\* ENTER_ZLIB(obj) by thread t: the lock is acquired at once when it is
\* free, else the thread waits for it.
ENTER_ZLIB(l, t) ==
    IF l.permits > 0
    THEN [l EXCEPT !.permits = @ - 1, !.th[t].holds = TRUE,
                   !.th[t].pc = "codec"]
    ELSE [l EXCEPT !.th[t].pc = "enter"]

\* LEAVE_ZLIB(obj) by thread t: the states PyThread_release_lock may leave.
\* The release of a lock this call has not acquired frees the lock under
\* the call that holds it; when no call holds it, the release does nothing,
\* lets the lock be acquired once more than it should, or aborts the
\* process, depending on the lock implementation.
LEAVE_ZLIB(l, t) ==
    IF l.th[t].holds
    THEN {[l EXCEPT !.permits = @ + 1, !.th[t].holds = FALSE]}
    ELSE IF l.permits = 0
    THEN {[l EXCEPT !.permits = 1, !.unpaired = TRUE]}
    ELSE {[l EXCEPT !.unpaired = TRUE],
          [l EXCEPT !.unpaired = TRUE,
                    !.permits = Py_MIN(@ + 1, MaxPermits)],
          [l EXCEPT !.unpaired = TRUE, !.crashed = TRUE]}

\* The methods of an instance and the arguments that decide their path.
Methods(kind) ==
    IF kind = "Compress"
    THEN {[op |-> "compress", arg |-> 0], [op |-> "copy", arg |-> 0]}
         \cup {[op |-> "flush", arg |-> m] : m \in {Z_NO_FLUSH, Z_FINISH}}
    ELSE IF kind = "Decompress"
    THEN {[op |-> "copy", arg |-> 0]}
         \cup {[op |-> o, arg |-> a] : o \in {"decompress", "flush"},
                                       a \in {-1, 0, 1}}
    ELSE IF kind = "ZlibDecompressor"
    THEN {[op |-> "decompress", arg |-> 0]}
    ELSE {[op |-> "readinto", arg |-> 1], [op |-> "readall", arg |-> 0]}
         \cup {[op |-> o, arg |-> a] : o \in {"read", "seek"},
                                       a \in {-1, 0, 1}}

\* The methods that return before ENTER_ZLIB: flush(Z_NO_FLUSH) of a
\* Compress, decompress(max_length < 0) and flush(length <= 0) of a
\* Decompress, read(0) of a GzipReader.
ReturnsEarly(kind, m) ==
    \/ kind = "Compress" /\ m.op = "flush" /\ m.arg = Z_NO_FLUSH
    \/ kind = "Decompress" /\ m.op = "decompress" /\ m.arg < 0
    \/ kind = "Decompress" /\ m.op = "flush" /\ m.arg <= 0
    \/ kind = "GzipReader" /\ m.op = "read" /\ m.arg = 0

\* The states after thread t has called method m and run up to the first
\* point where other threads may run, or to the return.  seek(t) takes no
\* lock; its arg is the number of bytes it has to read and discard, and
\* with none it returns at once.
CallMethod(l, t, m) ==
    IF ReturnsEarly(l.kind, m) THEN {l}
    ELSE IF l.kind = "Compress" /\ m.op = "copy" /\ ~l.is_initialised
    THEN LEAVE_ZLIB(l, t)
    ELSE IF l.kind = "GzipReader" /\ m.op = "seek"
    THEN IF m.arg = 0 THEN {l}
         ELSE {[l EXCEPT !.th[t] = [pc |-> "codec", op |-> "seek",
                                    arg |-> m.arg, holds |-> FALSE,
                                    chunks |-> 1]]}
    ELSE {ENTER_ZLIB([l EXCEPT !.th[t] =
                        [pc |-> "idle",
                         op |-> IF m.op = "read" /\ m.arg < 0 THEN "readall"
                                ELSE m.op,
                         arg |-> m.arg, holds |-> FALSE,
                         chunks |-> IF l.kind = "GzipReader" THEN 1 ELSE 0]],
                     t)}

\* ENTER_ZLIB by thread t just after its LEAVE_ZLIB, as between two chunks
\* of readall: t gets the lock back, or a thread that was waiting in
\* ENTER_ZLIB has got it in between and t waits.
ReEnter(l, t) ==
    {ENTER_ZLIB(l, t)}
    \cup {ENTER_ZLIB(ENTER_ZLIB(l, u), t) :
             u \in {w \in Threads : w # t /\ l.th[w].pc = "enter"
                                          /\ l.permits > 0}}

\* The lock released and the method returned.
LeaveAndReturn(l, t) ==
    {[x EXCEPT !.th[t] = IdleThread] : x \in LEAVE_ZLIB(l, t)}

\* The states after the codec part of thread t's method is over, "ended"
\* saying that the codec reported the end of the stream and "more" that a
\* readall or a seek has another chunk to read.
FinishMethod(l, t, ended, more) ==
    LET me == l.th[t] IN
    IF me.op = "seek"
    THEN IF more /\ me.chunks < MaxChunks
         THEN {[l EXCEPT !.th[t].chunks = @ + 1]}
         ELSE {[l EXCEPT !.th[t] = IdleThread]}
    ELSE IF me.op = "readall" /\ more /\ me.chunks < MaxChunks
    THEN UNION {ReEnter([x EXCEPT !.th[t].chunks = @ + 1], t) :
                   x \in LEAVE_ZLIB(l, t)}
    ELSE IF l.kind \in {"Compress", "Decompress"} /\ me.op = "flush"
            /\ ended /\ l.is_initialised
    THEN LeaveAndReturn([l EXCEPT !.is_initialised = FALSE], t)
    ELSE LeaveAndReturn(l, t)

InitLock ==
    \E kind \in {"Compress", "Decompress", "ZlibDecompressor", "GzipReader"} :
        /\ lk = [pc |-> "run", kind |-> kind, permits |-> 1,
                 is_initialised |-> TRUE, unpaired |-> FALSE,
                 crashed |-> FALSE, th |-> [t \in Threads |-> IdleThread]]
        /\ os = Idle
        /\ ss = Idle
        /\ zd = Idle
        /\ gr = Idle
        /\ lc = Idle
        /\ pz = Idle
        /\ gp = Idle
        /\ dc = Idle
        /\ cp = Idle
        /\ ab = Idle

\* A thread calls a method of the instance.
LockCall ==
    /\ lk.pc = "run" /\ ~lk.crashed
    /\ \E t \in Threads, m \in Methods(lk.kind) :
          /\ lk.th[t].pc = "idle"
          /\ lk' \in CallMethod(lk, t, m)
    /\ UNCHANGED <<os, ss, zd, gr, lc, pz, gp, dc, cp, ab>>

\* A thread waiting in ENTER_ZLIB gets the lock.
LockAcquire ==
    /\ lk.pc = "run" /\ ~lk.crashed
    /\ \E t \in Threads :
          /\ lk.th[t].pc = "enter"
          /\ lk.permits > 0
          /\ lk' = ENTER_ZLIB(lk, t)
    /\ UNCHANGED <<os, ss, zd, gr, lc, pz, gp, dc, cp, ab>>

\* The codec part of a thread's method comes to its end.
LockFinish ==
    /\ lk.pc = "run" /\ ~lk.crashed
    /\ \E t \in Threads, ended \in BOOLEAN, more \in BOOLEAN :
          /\ lk.th[t].pc = "codec"
          /\ lk' \in FinishMethod(lk, t, ended, more)
    /\ UNCHANGED <<os, ss, zd, gr, lc, pz, gp, dc, cp, ab>>

NextLock == LockCall \/ LockAcquire \/ LockFinish

SpecLock == InitLock /\ [][NextLock]_vars

\* C8: on a Compress, Decompress or ZlibDecompressor shared by threads, at
\* most one thread is inside the section guarded by the instance lock.
C8_OneInGuardedSection ==
    lk.kind \in {"Compress", "Decompress", "ZlibDecompressor"} =>
        Cardinality({t \in Threads : lk.th[t].pc = "codec"}) <= 1

\* C9: a GzipReader method drives the state machine only while it holds the
\* lock, and from its first state-machine step to its return no other
\* method of the reader does.
C9_ReaderLockedThroughout ==
    lk.kind = "GzipReader" =>
        /\ \A t \in Threads : lk.th[t].pc = "codec" => lk.th[t].holds
        /\ Cardinality({t \in Threads :
                           \/ lk.th[t].pc = "codec"
                           \/ lk.th[t].pc = "enter" /\ lk.th[t].chunks > 1})
             <= 1

\* C10: no call releases a lock it has not acquired, and a call that has
\* returned has released the lock it acquired.
C10_Balanced ==
    lk.pc = "run" =>
        /\ ~lk.unpaired
        /\ \A t \in Threads : lk.th[t].pc = "idle" => ~lk.th[t].holds

(***************************************************************************)
(* Specification SpecLifecycle: one Compress, Decompress or                *)
(* ZlibDecompressor object and the calls a program may make on it, in any  *)
(* order and past the end of the stream: the payload (for a compressor) or *)
(* a stream, valid or with one byte changed (for a decompressor), is       *)
(* passed in pieces, and flush is called at any moment.                    *)
(***************************************************************************)
MaxCalls == 4

LifePayloads == {<<>>, <<1, 1, 0>>}

\* A stream with one byte replaced by a value no valid stream has there.
Damaged(s) == {[s EXCEPT ![i] = @ + 5] : i \in 1..Len(s)}

\* Most bytes that follow the end of a stream.
MaxTail == 2

\* j bytes that follow the end of a stream.
TailBytes(j) == [i \in 1..j |-> 10 - i]

\* The streams given to a decompressor: valid ones, alone (tail = 0) or
\* followed by tail bytes, and damaged ones.
LifeStreams ==
    UNION {LET s == zlib_compress_impl(b, 6, wbits).value IN
           {[wbits |-> wbits, data |-> d, tail |-> 0] :
                d \in {s} \cup Damaged(s)}
           \cup {[wbits |-> wbits, data |-> s \o TailBytes(j), tail |-> j] :
                    j \in 1..MaxTail} :
               b \in LifePayloads, wbits \in WbitsChoices}

\* err of a method that has not called the codec.
NoStatus == "none"

\* The status the codec left in err when the loops of a method ended,
\* NoStatus for a method that returns before it calls the codec.  A status that
\* leaves the loops at once is the last status.
zlib_Compress_compress_err(self, data) ==
    CompressObjLoop([self.zst EXCEPT !.next_in = 0], data, Len(data), NULL,
                    DEF_BUF_SIZE).err

zlib_Compress_flush_err(self, mode) ==
    IF mode = Z_NO_FLUSH THEN NoStatus
    ELSE DeflateRounds([self.zst EXCEPT !.avail_in = 0], <<>>, NULL,
                       DEF_BUF_SIZE, mode).err

zlib_Decompress_decompress_err(self, data, max_length) ==
    IF max_length < 0 THEN NoStatus
    ELSE DecompressObjLoop(
             [self.zst EXCEPT !.next_in = 0], self.zdict, data, Len(data),
             NULL,
             IF max_length # 0 /\ DEF_BUF_SIZE > max_length
             THEN max_length ELSE DEF_BUF_SIZE,
             IF max_length = 0 THEN PY_SSIZE_T_MAX ELSE max_length,
             max_length, Z_OK).err

zlib_Decompress_flush_err(self, length) ==
    IF length <= 0 THEN NoStatus
    ELSE DecompressFlushLoop([self.zst EXCEPT !.next_in = 0],
                             self.unconsumed_tail, Len(self.unconsumed_tail),
                             NULL, length).err

\* ZlibDecompressor.decompress: the status is that of the last codec call,
\* which decompress_buf turns into its result.
zlib_ZlibDecompressor_decompress_err(self, r) ==
    IF self.eof THEN NoStatus
    ELSE IF r.res.ok
    THEN (IF r.self.eof THEN Z_STREAM_END ELSE Z_OK)
    ELSE IF r.res.exc = "SystemError" THEN Z_NEED_DICT
    ELSE IF r.self.zst.st.mode = "bad" THEN Z_DATA_ERROR
    ELSE Z_STREAM_ERROR

InitLifecycle ==
    \/ \E b \in LifePayloads \ {<<>>}, wbits \in WbitsChoices :
        /\ lc = [pc |-> "run", kind |-> "Compress",
                 obj |-> zlib_compressobj_impl(6, wbits, NoZdict), rest |-> b,
                 tail |-> 0, data |-> <<>>,
                 calls |-> 0, op |-> "new", before |-> newcompobject,
                 last |-> NoResult, err |-> NoStatus]
        /\ os = Idle /\ ss = Idle /\ zd = Idle /\ gr = Idle /\ lk = Idle
        /\ pz = Idle
        /\ gp = Idle
        /\ dc = Idle
        /\ cp = Idle
        /\ ab = Idle
    \/ \E kind \in {"Decompress", "ZlibDecompressor"}, s \in LifeStreams :
        /\ lc = [pc |-> "run", kind |-> kind,
                 obj |-> IF kind = "Decompress"
                         THEN zlib_decompressobj_impl(s.wbits, NoZdict)
                         ELSE ZlibDecompressor__new__(s.wbits, NoZdict),
                 rest |-> s.data, tail |-> s.tail, data |-> <<>>,
                 calls |-> 0, op |-> "new",
                 before |-> newcompobject, last |-> NoResult, err |-> NoStatus]
        /\ os = Idle /\ ss = Idle /\ zd = Idle /\ gr = Idle /\ lk = Idle
        /\ pz = Idle
        /\ gp = Idle
        /\ dc = Idle
        /\ cp = Idle
        /\ ab = Idle

\* What a call leaves in the record: n bytes of lc.rest were passed.
AfterLifeCall(op, n, r, err) ==
    lc' = [lc EXCEPT !.obj = r.self, !.rest = Drop(@, n), !.calls = @ + 1,
                     !.data = Take(lc.rest, n),
                     !.op = op, !.before = lc.obj, !.last = r.res,
                     !.err = err]

\* Compress.compress(piece).
LifeCompress ==
    /\ lc.pc = "run" /\ lc.kind = "Compress" /\ lc.calls < MaxCalls
    /\ \E n \in 0..Len(lc.rest) :
         AfterLifeCall("compress", n,
                       zlib_Compress_compress_impl(lc.obj, Take(lc.rest, n)),
                       zlib_Compress_compress_err(lc.obj, Take(lc.rest, n)))
    /\ UNCHANGED <<os, ss, zd, gr, lk, pz, gp, dc, cp, ab>>

\* Compress.flush(mode).
LifeCompressFlush ==
    /\ lc.pc = "run" /\ lc.kind = "Compress" /\ lc.calls < MaxCalls
    /\ \E mode \in {Z_NO_FLUSH, Z_SYNC_FLUSH, Z_FINISH} :
         AfterLifeCall("flush", 0, zlib_Compress_flush_impl(lc.obj, mode),
                       zlib_Compress_flush_err(lc.obj, mode))
    /\ UNCHANGED <<os, ss, zd, gr, lk, pz, gp, dc, cp, ab>>

\* Decompress.decompress(piece, max_length), max_length being 0 or 1.
LifeDecompress ==
    /\ lc.pc = "run" /\ lc.kind = "Decompress" /\ lc.calls < MaxCalls
    /\ \E n \in 0..Len(lc.rest), max_length \in 0..1 :
         AfterLifeCall("decompress", n,
                       zlib_Decompress_decompress_impl(lc.obj, Take(lc.rest, n),
                                                       max_length),
                       zlib_Decompress_decompress_err(lc.obj, Take(lc.rest, n),
                                                      max_length))
    /\ UNCHANGED <<os, ss, zd, gr, lk, pz, gp, dc, cp, ab>>

\* Decompress.flush(length).
LifeDecompressFlush ==
    /\ lc.pc = "run" /\ lc.kind = "Decompress" /\ lc.calls < MaxCalls
    /\ \E length \in 1..DEF_BUF_SIZE :
         AfterLifeCall("flush", 0, zlib_Decompress_flush_impl(lc.obj, length),
                       zlib_Decompress_flush_err(lc.obj, length))
    /\ UNCHANGED <<os, ss, zd, gr, lk, pz, gp, dc, cp, ab>>

\* ZlibDecompressor.decompress(piece, max_length), max_length being -1 or 1.
LifeZlibDecompressor ==
    /\ lc.pc = "run" /\ lc.kind = "ZlibDecompressor" /\ lc.calls < MaxCalls
    /\ \E n \in 0..Len(lc.rest), max_length \in {-1, 1} :
         Let(zlib_ZlibDecompressor_decompress(lc.obj, Take(lc.rest, n),
                                              max_length), LAMBDA r :
         AfterLifeCall("decompress", n, r,
                       zlib_ZlibDecompressor_decompress_err(lc.obj, r)))
    /\ UNCHANGED <<os, ss, zd, gr, lk, pz, gp, dc, cp, ab>>

NextLifecycle ==
    \/ LifeCompress
    \/ LifeCompressFlush
    \/ LifeDecompress
    \/ LifeDecompressFlush
    \/ LifeZlibDecompressor

SpecLifecycle == InitLifecycle /\ [][NextLifecycle]_vars

\* C11: once a Decompress or ZlibDecompressor object has eof set, every
\* later decompress call on it raises (EOFError).
C11_NoDecompressAfterEof ==
    (/\ lc.pc = "run" /\ lc.calls > 0 /\ lc.op = "decompress"
     /\ lc.before.eof)
    => ~lc.last.ok /\ lc.last.exc = "EOFError"

\* C12: after a Compress object was finalized by flush(Z_FINISH), or a
\* Decompress object by a flush that reached the end of the stream, every
\* later compress, decompress or flush call raises.
C12_FinalizedRejects ==
    (/\ lc.pc = "run" /\ lc.calls > 0
     /\ lc.kind \in {"Compress", "Decompress"}
     /\ ~lc.before.is_initialised)
    => ~lc.last.ok

\* C13: a call in which the codec reported a status other than Z_OK,
\* Z_BUF_ERROR, Z_STREAM_END (or Z_NEED_DICT with a dictionary set) raises.
C13_StatusSurfaced ==
    (/\ lc.pc = "run" /\ lc.calls > 0
     /\ lc.err \notin {NoStatus, Z_OK, Z_BUF_ERROR, Z_STREAM_END}
     /\ ~(lc.err = Z_NEED_DICT /\ lc.before.zdict # NoZdict))
    => ~lc.last.ok

(***************************************************************************)
(* Specification SpecPhases: GzipReader_read_into_buffer followed step by  *)
(* step.  A step is one pass through the switch on stream_phase (up to the *)
(* phase change, the break, the return or the error), the code after the   *)
(* inner loop, or a read_from_file.  The reader is read by readinto calls  *)
(* until it reports the end or raises.                                     *)
(***************************************************************************)
\* A header with all optional fields and nothing after it, as written and
\* with its header checksum changed.
HeaderOnly ==
    LET h == gzip_header(FEXTRA + FNAME + FCOMMENT + FHCRC) IN
    {h, [h EXCEPT ![Len(h)] = (@ + 1) % 128]}

PhInputs ==
    {s.data : s \in GzMembers}
    \cup {s.data \o s.data : s \in DamageBases}
    \cup UNION {Truncated(s.data) \cup Corrupted(s.data) : s \in DamageBases}
    \cup HeaderOnly

\* The reader's state as a step found it.
Seen(g) == [self |-> g.self, current_pos |-> g.current_pos,
            member |-> g.member]

InitPhases ==
    \E data \in PhInputs, is_file \in BOOLEAN, buffer_size \in 1..MaxBufferSize,
       n \in {1, MaxRead} :
        /\ ~is_file => buffer_size = 1
        /\ gp = [pc |-> "idle", data |-> data, is_file |-> is_file, n |-> n,
                 self |-> GzipReader__new__(data, is_file, buffer_size),
                 current_pos |-> 0, out |-> <<>>, out_buffer_size |-> 0,
                 exc |-> "none", step |-> "new", member |-> <<>>,
                 before |-> [self |-> GzipReader__new__(data, is_file,
                                                        buffer_size),
                             current_pos |-> 0, member |-> <<>>]]
        /\ os = Idle /\ ss = Idle /\ zd = Idle /\ gr = Idle /\ lk = Idle
        /\ lc = Idle
        /\ pz = Idle
        /\ dc = Idle
        /\ cp = Idle
        /\ ab = Idle

\* readinto(buffer) with room for n bytes enters read_into_buffer.
PhCall ==
    /\ gp.pc \in {"idle", "returned"}
    /\ gp' = [gp EXCEPT !.pc = "loop", !.current_pos = gp.self.current_pos,
                        !.out = <<>>, !.out_buffer_size = gp.n,
                        !.step = "call", !.before = Seen(gp)]
    /\ UNCHANGED <<os, ss, zd, gr, lk, lc, pz, dc, cp, ab>>

\* What a step that left the loop state "e" makes of the reading.
AfterStep(step, e, member) ==
    gp' = [gp EXCEPT
             !.pc = IF e.stop = "next" THEN "loop"
                    ELSE IF e.stop = "break" THEN "broke"
                    ELSE IF e.stop = "read_from_file" THEN "refill"
                    ELSE IF e.stop = "error" THEN "failed"
                    ELSE IF e.out = <<>> THEN "ended" ELSE "returned",
             !.self = e.self, !.current_pos = e.current_pos, !.out = e.out,
             !.out_buffer_size = e.out_buffer_size, !.exc = e.exc,
             !.step = step, !.before = Seen(gp), !.member = member]

\* One pass through switch (self->stream_phase).  "member" follows the bytes
\* decompressed from the member being read.
PhStep ==
    /\ gp.pc = "loop"
    /\ Let(stream_phase_case(gp.self, gp.current_pos, gp.out,
                             gp.out_buffer_size), LAMBDA e :
       AfterStep("phase", e,
                 IF gp.self.stream_phase = GzipReader_HEADER
                 THEN (IF e.stop = "next" THEN <<>> ELSE gp.member)
                 ELSE gp.member \o SubSeq(e.out, Len(gp.out) + 1, Len(e.out))))
    /\ UNCHANGED <<os, ss, zd, gr, lk, lc, pz, dc, cp, ab>>

\* The code after the inner loop, which a break has left.
PhAfterLoop ==
    /\ gp.pc = "broke"
    /\ AfterStep("after_loop",
                 after_inner_loop(LoopExit(gp.self, "break", gp.current_pos,
                                           gp.out, gp.out_buffer_size,
                                           "none")),
                 gp.member)
    /\ UNCHANGED <<os, ss, zd, gr, lk, lc, pz, dc, cp, ab>>

\* read_from_file, and the outer loop starts again.
PhReadFromFile ==
    /\ gp.pc = "refill"
    /\ \E new_size \in ReadintoCounts(gp.self.fp, read_in_size(gp.self)) :
         Let(GzipReader_read_from_file(gp.self, new_size), LAMBDA self :
         AfterStep("read_from_file",
                   LoopExit(self, "next", self.current_pos, gp.out,
                            gp.out_buffer_size, "none"),
                   gp.member))
    /\ UNCHANGED <<os, ss, zd, gr, lk, lc, pz, dc, cp, ab>>

NextPhases == PhCall \/ PhStep \/ PhAfterLoop \/ PhReadFromFile

SpecPhases == InitPhases /\ [][NextPhases]_vars

\* The bytes between the cursor and the end of the window, as a step found
\* them, and the phase it found.
SeenPhase == gp.before.self.stream_phase

SeenLeft == gp.before.self.buffer_end - gp.before.current_pos

SeenExhausted == gp.before.self.all_bytes_read

\* C14: when the source is exhausted (all_bytes_read) and the member is
\* unterminated - 1 to 9 bytes left in the header phase, nothing left in the
\* deflate phase, fewer than 8 bytes left in the trailer phase - the read
\* leaves the loop and fails with EOFError; the stream ends cleanly only with
\* the source exhausted in the header phase with no byte left, or in the
\* padding phase.
C14_ExhaustedUnterminated ==
    /\ (/\ gp.step = "phase" /\ SeenExhausted
        /\ \/ SeenPhase = GzipReader_HEADER /\ SeenLeft \in 1..9
           \/ SeenPhase = GzipReader_TRAILER /\ SeenLeft < 8)
       => gp.pc = "broke"
    /\ (/\ gp.step = "phase" /\ SeenExhausted
        /\ SeenPhase = GzipReader_DEFLATE_BLOCK /\ SeenLeft = 0)
       => gp.pc \in {"broke", "returned"}
    /\ (gp.step = "after_loop" /\ SeenExhausted)
       => IF SeenPhase = GzipReader_NULL_BYTES
          THEN gp.pc \in {"returned", "ended"} /\ gp.exc = "none"
          ELSE gp.pc = "failed" /\ gp.exc = "EOFError"
    /\ (/\ gp.step = "phase" /\ SeenExhausted
        /\ SeenPhase = GzipReader_HEADER /\ SeenLeft = 0)
       => gp.pc \in {"returned", "ended"} /\ gp.exc = "none"
    /\ gp.pc = "ended"
       => /\ SeenExhausted
          /\ \/ SeenPhase = GzipReader_HEADER /\ SeenLeft = 0
             \/ SeenPhase = GzipReader_NULL_BYTES
    /\ (gp.pc = "failed" /\ gp.exc = "EOFError")
       => /\ SeenExhausted /\ gp.step = "after_loop"
          /\ SeenPhase # GzipReader_NULL_BYTES

\* A file ended inside the trailer of a member whose data had been
\* decompressed, and the read failed with EOFError.
C14_Witness ==
    /\ gp.pc = "failed" /\ gp.exc = "EOFError" /\ gp.is_file
    /\ gp.step = "after_loop" /\ SeenPhase = GzipReader_TRAILER
    /\ SeenLeft \in 1..7 /\ Len(gp.member) > UINT32_MAX

\* C15: in the trailer phase with 8 or more bytes in the window, the read
\* fails with BadGzipFile when the stored CRC32 is not the checksum of the
\* bytes decompressed from this member, or the stored length is not their
\* count modulo 2^32; when both match, the phase becomes NULL_BYTES with the
\* cursor behind the trailer, and only then.
C15_TrailerChecked ==
    (/\ gp.step = "phase" /\ SeenPhase = GzipReader_TRAILER /\ SeenLeft >= 8)
    => LET mem == gp.before.self.input_buffer
           at == gp.before.current_pos
       IN  IF /\ load_u32_le(mem, at) = zng_crc32_z(0, gp.before.member)
              /\ load_u32_le(mem, at + 4)
                   = Low32(Len(gp.before.member))
           THEN /\ gp.pc = "loop"
                /\ gp.self.stream_phase = GzipReader_NULL_BYTES
                /\ gp.current_pos = at + 8
                /\ gp.member = gp.before.member
           ELSE /\ gp.pc = "failed" /\ gp.exc = "BadGzipFile"
                /\ gp.self.stream_phase = GzipReader_TRAILER

\* The trailer of the second member of a stream was checked and accepted:
\* its checksum and length are those of the second member alone.
C15_Witness ==
    /\ gp.step = "phase" /\ SeenPhase = GzipReader_TRAILER /\ SeenLeft >= 8
    /\ gp.self.stream_phase = GzipReader_NULL_BYTES
    /\ gp.before.self._pos > Len(gp.before.member)
    /\ Len(gp.before.member) > UINT32_MAX

\* The layout of a member header (RFC 1952) that starts at "at" in mem: the
\* offset of the first byte after the field, NULL when the field is not
\* wholly below "end".
AfterExtra(mem, at, end) ==
    IF ~HasFlag(mem[at + 4], FEXTRA) THEN at + 10
    ELSE IF at + 12 > end THEN NULL
    ELSE IF at + 12 + load_u16_le(mem, at + 10) > end THEN NULL
    ELSE at + 12 + load_u16_le(mem, at + 10)

AfterString(mem, at, from, end, bit) ==
    IF from = NULL \/ ~HasFlag(mem[at + 4], bit) THEN from
    ELSE IF memchr0(mem, from, end) = NULL THEN NULL
    ELSE memchr0(mem, from, end) + 1

\* The offset of the header checksum, or of the first body byte of a
\* header without one.
AfterComment(mem, at, end) ==
    AfterString(mem, at,
                AfterString(mem, at, AfterExtra(mem, at, end), end, FNAME),
                end, FCOMMENT)

\* The offset of the first body byte, NULL for a header not wholly below
\* "end".
HeaderEnd(mem, at, end) ==
    IF end - at < 10 THEN NULL
    ELSE IF AfterComment(mem, at, end) = NULL THEN NULL
    ELSE IF ~HasFlag(mem[at + 4], FHCRC) THEN AfterComment(mem, at, end)
    ELSE IF AfterComment(mem, at, end) + 2 > end THEN NULL
    ELSE AfterComment(mem, at, end) + 2

\* The header that starts at "at" is one the reader has to reject.
BadHeader(mem, at, end) ==
    \/ mem[at + 1] # 31 \/ mem[at + 2] # 139
    \/ mem[at + 3] # 8
    \/ /\ HasFlag(mem[at + 4], FHCRC)
       /\ load_u16_le(mem, AfterComment(mem, at, end))
            # zng_crc32_z(0, SubSeq(mem, at + 1, AfterComment(mem, at, end)))
                % 65536

\* C16: in the header phase with a complete header in the window, the read
\* fails with BadGzipFile when the magic is not 1f 8b, the method is not 8,
\* or FHCRC is set and the stored 16-bit value is not the low 16 bits of the
\* CRC32 of the header bytes before it; otherwise the optional fields are
\* skipped, the inflate state is reset, the running CRC is zero and the phase
\* is DEFLATE_BLOCK with the cursor at the first body byte.
C16_HeaderChecked ==
    (/\ gp.step = "phase" /\ SeenPhase = GzipReader_HEADER
     /\ HeaderEnd(gp.before.self.input_buffer, gp.before.current_pos,
                  gp.before.self.buffer_end) # NULL)
    => LET mem == gp.before.self.input_buffer
           at == gp.before.current_pos
           end == gp.before.self.buffer_end
       IN  IF BadHeader(mem, at, end)
           THEN gp.pc = "failed" /\ gp.exc = "BadGzipFile"
           ELSE /\ gp.pc = "loop"
                /\ gp.self.stream_phase = GzipReader_DEFLATE_BLOCK
                /\ gp.current_pos = HeaderEnd(mem, at, end)
                /\ gp.self.crc = 0
                /\ gp.self.zst.st = zng_inflateReset(gp.before.self.zst.st)

\* The phase after "phase" in the cycle HEADER, DEFLATE_BLOCK, TRAILER,
\* NULL_BYTES, HEADER.
PhaseAfter(phase) ==
    IF phase = GzipReader_NULL_BYTES THEN GzipReader_HEADER ELSE phase + 1

\* A step leaves the phase as it is or moves it one place along the cycle,
\* and only a pass through the switch moves it.
PhaseOrder ==
    /\ gp.self.stream_phase \in {SeenPhase, PhaseAfter(SeenPhase)}
    /\ gp.step # "phase" => gp.self.stream_phase = SeenPhase

\* A phase is left only over bytes that are in the window: the header and
\* the trailer whole, the deflate data and the padding up to a byte below
\* the end of the window.
AdvanceOverWindow ==
    (gp.step = "phase" /\ gp.self.stream_phase # SeenPhase)
    => LET mem == gp.before.self.input_buffer
           at == gp.before.current_pos
           end == gp.before.self.buffer_end
       IN  /\ gp.current_pos \in at..end
           /\ SeenPhase = GzipReader_HEADER
                => gp.current_pos = HeaderEnd(mem, at, end)
           /\ SeenPhase = GzipReader_TRAILER => gp.current_pos = at + 8
           /\ SeenPhase = GzipReader_NULL_BYTES
                => /\ gp.current_pos < end /\ mem[gp.current_pos + 1] # 0
                   /\ \A i \in (at + 1)..gp.current_pos : mem[i] = 0

\* read_from_file keeps the phase and the unconsumed bytes: the window
\* starts with them, and the bytes of the file follow.
RefillKeeps ==
    gp.step = "read_from_file"
    => /\ SubSeq(gp.self.input_buffer, gp.current_pos + 1,
                 gp.current_pos + SeenLeft)
            = SubSeq(gp.before.self.input_buffer, gp.before.current_pos + 1,
                     gp.before.self.buffer_end)
       /\ SubSeq(gp.self.input_buffer, gp.current_pos + 1,
                 gp.self.buffer_end)
            = SubSeq(gp.data, gp.self.fp.pos - (gp.self.buffer_end
                                                 - gp.current_pos) + 1,
                     gp.self.fp.pos)

\* C17 (as claimed): the phase moves only along the cycle and only over
\* bytes that are in the window; a phase that has to wait for bytes has
\* consumed none of them, and after the refill the same phase starts again at
\* the same byte.
C17_NoPartialPhase ==
    /\ PhaseOrder
    /\ AdvanceOverWindow
    /\ RefillKeeps
    /\ (gp.step = "phase" /\ gp.pc = "broke")
       => gp.current_pos = gp.before.current_pos

\* C17 (amended): the header and the trailer phase wait without consuming;
\* the deflate phase and the padding phase consume what the window holds
\* (deflate data, zero bytes) before they wait, the inflate state and the
\* phase carrying on after the refill at the first byte not consumed.
C17_NoPartialPhaseAmended ==
    /\ PhaseOrder
    /\ AdvanceOverWindow
    /\ RefillKeeps
    /\ (gp.step = "phase" /\ gp.pc = "broke")
       => /\ gp.self.stream_phase = SeenPhase
          /\ IF SeenPhase \in {GzipReader_HEADER, GzipReader_TRAILER}
             THEN gp.current_pos = gp.before.current_pos
             ELSE /\ gp.current_pos = gp.before.self.buffer_end
                  /\ SeenPhase = GzipReader_NULL_BYTES
                       => \A i \in (gp.before.current_pos + 1)..gp.current_pos :
                              gp.before.self.input_buffer[i] = 0

\* A trailer of which 4 to 7 bytes were in the window has waited, nothing
\* consumed, and the refill has brought the rest of it behind those bytes.
C17_Witness ==
    /\ gp.step = "read_from_file" /\ gp.is_file
    /\ SeenPhase = GzipReader_TRAILER /\ SeenLeft \in 4..7
    /\ gp.self.stream_phase = GzipReader_TRAILER
    /\ gp.self.buffer_end - gp.current_pos >= 8
    /\ Len(gp.member) > UINT32_MAX

(***************************************************************************)
(* _ParallelCompress: one raw compression session, reset before every      *)
(* block, and one output buffer of a size fixed at construction.           *)
(***************************************************************************)
\* crc32_combine(crc1, crc2, crc2_length).
zlib_crc32_combine_swapped(crc1, crc2, crc2_length) ==
    Low32(zng_crc32_combine(crc2, crc1, crc2_length))

zlib_crc32_combine(crc1, crc2, crc2_length) ==
    Low32(zng_crc32_combine(crc1, crc2, crc2_length))

\* _ParallelCompress(buffersize, level).  The ValueError for a buffersize
\* above UINT32_MAX is set without returning: the object is still built and
\* handed back with the error set, which the interpreter reports as a
\* SystemError.  A negative buffersize is a huge size_t that PyMem_Malloc
\* refuses.
ParallelCompress__new__(buffer_size, level) ==
    IF level \notin -1..9 THEN Raise("ZlibError")
    ELSE IF buffer_size < 0 THEN Raise("MemoryError")
    ELSE IF buffer_size > UINT32_MAX THEN Raise("SystemError")
    ELSE [ok |-> TRUE, exc |-> "none",
          value |-> [buffer_size |-> buffer_size,
                     zst |-> zng_deflateInit2(level, -MAX_WBITS),
                     is_initialised |-> TRUE]]

\* compress_and_crc from the reset on; rs is what zng_deflateReset answered.
\* The result is [self, res], res the pair <<bytes, crc>> or the exception.
compress_and_crc_after_reset(self, rs, data, zdict) ==
    IF rs.err # Z_OK
    THEN [self |-> [self EXCEPT !.zst = rs.st], res |-> Raise("ZlibError")]
    ELSE
    Let(zng_deflateSetDictionary(rs.st, zdict), LAMBDA sd :
    IF sd.err # Z_OK
    THEN [self |-> [self EXCEPT !.zst = sd.st], res |-> Raise("ZlibError")]
    ELSE
    Let(zng_deflate(sd.st, data, self.buffer_size, Z_SYNC_FLUSH), LAMBDA r :
    LET crc == zng_crc32_z(0, data)
        avail_in == Len(data) - r.used
        avail_out == self.buffer_size - Len(r.out)
    IN  [self |-> [self EXCEPT !.zst = r.st],
         res |-> IF r.err # Z_OK THEN Raise("ZlibError")
                 ELSE IF avail_out = 0 THEN Raise("OverflowError")
                 ELSE IF avail_in # 0 THEN Raise("RuntimeError")
                 ELSE Return(<<r.out, crc>>)]))

ParallelCompress_compress_and_crc_no_reset(self, data, zdict) ==
    IF Len(data) + Len(zdict) > UINT32_MAX
    THEN [self |-> self, res |-> Raise("OverflowError")]
    ELSE compress_and_crc_after_reset(self, [st |-> self.zst, err |-> Z_OK],
                                      data, zdict)

\* compress_and_crc(data, zdict).
ParallelCompress_compress_and_crc(self, data, zdict) ==
    IF Len(data) + Len(zdict) > UINT32_MAX
    THEN [self |-> self, res |-> Raise("OverflowError")]
    ELSE compress_and_crc_after_reset(self, zng_deflateReset(self.zst),
                                      data, zdict)

(***************************************************************************)
(* The block-parallel writer: the input goes block by block through one    *)
(* compressor, every block with the tail of the block before it as its     *)
(* dictionary; the outputs are joined and the checksums combined.  The     *)
(* compressor may have been used for other calls before.                   *)
(***************************************************************************)
\* Largest block size the writer cuts the input into.
MaxBlock == 2
\* Length of the dictionary carried from one block to the next.
DictLen == 1
\* Calls on the compressor that are not blocks of the input.
MaxStray == 1

trailing_bytes(block) == Drop(block, Len(block) - Py_MIN(DictLen, Len(block)))

\* The end of the joined stream: one last, empty, final block.
FinalBlock == <<0>>

InitParallel ==
    \E b \in SeqsUpTo(PayloadBytes, MaxPayload), level \in LevelChoices,
       buffer_size \in {0} \cup (UINT32_MAX - 1)..(UINT32_MAX + 1),
       block_size \in 1..MaxBlock :
        /\ pz = [pc |-> "start", b |-> b, level |-> level,
                 buffer_size |-> buffer_size, block_size |-> block_size,
                 self |-> NULL, rest |-> b, prev |-> <<>>, out |-> <<>>,
                 crc |-> 0, total |-> 0, calls |-> 0, stray |-> 0,
                 failed |-> FALSE, data |-> <<>>, zdict |-> <<>>,
                 last |-> NoResult, fresh |-> NoResult, exc |-> "none",
                 dec |-> NoResult]
        /\ os = Idle /\ ss = Idle /\ zd = Idle /\ gr = Idle /\ lk = Idle
        /\ lc = Idle
        /\ gp = Idle
        /\ dc = Idle
        /\ cp = Idle
        /\ ab = Idle

\* _ParallelCompress(buffer_size, level)
PzNew ==
    /\ pz.pc = "start"
    /\ LET r == ParallelCompress__new__(pz.buffer_size, pz.level) IN
       pz' = IF r.ok THEN [pz EXCEPT !.pc = "run", !.self = r.value]
             ELSE [pz EXCEPT !.pc = "failed", !.exc = r.exc]
    /\ UNCHANGED <<os, ss, zd, gr, lk, lc, gp, dc, cp, ab>>

\* What one call leaves in the record: the compressor, the arguments, the
\* result and what a compressor built just now answers to the same call.
AfterPzCall(p, r, data, zdict) ==
    [p EXCEPT !.self = r.self, !.calls = @ + 1, !.data = data,
              !.zdict = zdict, !.last = r.res,
              !.failed = @ \/ (p.calls > 0 /\ ~p.last.ok),
              !.fresh = ParallelCompress_compress_and_crc(
                            ParallelCompress__new__(p.buffer_size,
                                                    p.level).value,
                            data, zdict).res]

\* The next block of the input.
PzBlock ==
    /\ pz.pc = "run"
    /\ pz.rest # <<>>
    /\ LET data == Take(pz.rest, pz.block_size)
           zdict == trailing_bytes(pz.prev)
       IN  Let(ParallelCompress_compress_and_crc(pz.self, data, zdict),
               LAMBDA r :
           pz' = IF r.res.ok
                 THEN [AfterPzCall(pz, r, data, zdict) EXCEPT
                         !.rest = Drop(@, Len(data)), !.prev = data,
                         !.out = @ \o r.res.value[1],
                         !.crc = IF pz.total = 0 THEN r.res.value[2]
                                 ELSE zlib_crc32_combine(@, r.res.value[2],
                                                         Len(data)),
                         !.total = @ + Len(data)]
                 ELSE [AfterPzCall(pz, r, data, zdict) EXCEPT
                         !.pc = "failed", !.exc = r.res.exc])
    /\ UNCHANGED <<os, ss, zd, gr, lk, lc, gp, dc, cp, ab>>

\* A call on the compressor before the writer takes it.
PzStray ==
    /\ pz.pc = "run"
    /\ pz.stray < MaxStray
    /\ pz.calls = pz.stray
    /\ \E data \in SeqsUpTo(PayloadBytes, MaxBlock) \ {<<>>},
          zdict \in SeqsUpTo(PayloadBytes, DictLen) :
         Let(ParallelCompress_compress_and_crc(pz.self, data, zdict),
             LAMBDA r :
             pz' = [AfterPzCall(pz, r, data, zdict) EXCEPT !.stray = @ + 1])
    /\ UNCHANGED <<os, ss, zd, gr, lk, lc, gp, dc, cp, ab>>

\* The joined stream, ended by the final block, is decompressed.
PzJoin ==
    /\ pz.pc = "run"
    /\ pz.rest = <<>>
    /\ pz' = [pz EXCEPT !.pc = "joined",
                        !.dec = zlib_decompress_impl(pz.out \o FinalBlock,
                                                     -MAX_WBITS, DEF_BUF_SIZE)]
    /\ UNCHANGED <<os, ss, zd, gr, lk, lc, gp, dc, cp, ab>>

NextParallel == PzNew \/ PzBlock \/ PzStray \/ PzJoin

SpecParallel == InitParallel /\ [][NextParallel]_vars

\* What a single-pass gzip compression of b records in its trailer.
SinglePassTrailer(b, level) ==
    LET s == zlib_compress_impl(b, level, MAX_WBITS + 16).value IN
    SubSeq(s, Len(s) - 1, Len(s))

\* C18: an input cut into fixed-size blocks, block i compressed with the
\* trailing bytes of block i-1 as its dictionary (none for the first), has
\* outputs that, joined in block order, decompress to the input, and
\* checksums that, combined in block order, give the checksum of the whole
\* input, with the block lengths adding up to its length: the values a
\* single-pass compression records.
C18_BlocksJoin ==
    pz.pc = "joined" =>
        /\ pz.dec.ok
        /\ pz.dec.value = pz.b
        /\ pz.crc = zng_crc32_z(0, pz.b)
        /\ pz.total = Len(pz.b)
        /\ <<pz.crc, pz.total % 256>> = SinglePassTrailer(pz.b, pz.level)

C18_Witness ==
    /\ pz.pc = "joined"
    /\ Len(pz.b) = MaxPayload
    /\ pz.block_size < Len(pz.b)
    /\ \E i \in 1..Len(pz.out) : pz.out[i] = BackRef
    /\ \E i \in 1..Len(pz.b) : pz.b[i] # pz.b[1]
    /\ pz.stray > 0
    /\ pz.dec.ok /\ pz.dec.value = pz.b

\* What the codec makes of one block when the output has all the room it
\* needs.
WholeBlock(level, data, zdict) ==
    zng_deflate(
        zng_deflateSetDictionary(zng_deflateInit2(level, -MAX_WBITS), zdict).st,
        data, 2 * Len(data) + 1, Z_SYNC_FLUSH).out

\* C19: compress_and_crc never returns truncated output: a result is the
\* whole compressed block, all of data consumed, and fits the buffer; when
\* the buffer fills before the block is through, the call fails with
\* OverflowError.
C19_NoTruncation ==
    pz.calls > 0 =>
        LET whole == WholeBlock(pz.level, pz.data, pz.zdict) IN
        /\ pz.last.ok => /\ pz.last.value[1] = whole
                         /\ Len(whole) <= pz.buffer_size
        /\ Len(whole) > pz.buffer_size
               => ~pz.last.ok /\ pz.last.exc = "OverflowError"

\* C20: what compress_and_crc answers depends on data, zdict, the level and
\* the buffer size alone: a compressor with earlier calls behind it, failed
\* ones among them, answers as one built just now does; the crc returned is
\* that of data alone; and the buffer size stays what the constructor set.
C20_HistoryFree ==
    /\ pz.pc \in {"run", "joined"} \/ pz.calls > 0
           => pz.self.buffer_size = pz.buffer_size
    /\ pz.calls > 0 =>
        /\ pz.last = pz.fresh
        /\ pz.last.ok => pz.last.value[2] = zng_crc32_z(0, pz.data)

C20_Witness ==
    /\ pz.calls > 2
    /\ pz.stray > 0
    /\ pz.failed
    /\ pz.zdict # <<>>
    /\ pz.last.ok
    /\ pz.last = pz.fresh
    /\ BackRef \in {pz.last.value[1][i] : i \in 1..Len(pz.last.value[1])}

(***************************************************************************)
(* Preset dictionaries: a stream is made by a Compress object with a       *)
(* dictionary and given, in pieces, to a Decompress or ZlibDecompressor    *)
(* object built with or without one.                                       *)
(***************************************************************************)
\* The dictionaries tried; the last is too long for the codec's 32-bit
\* length.
DictChoices == {<<0>>, <<0, 1>>, [i \in 1..(UINT32_MAX + 1) |-> 1]}

\* The bytes a ZlibDecompressor still holds for the codec.
PendingInput(self) ==
    SubSeq(self.input_buffer, self.zst.next_in + 1,
           self.zst.next_in + self.avail_in_real)

\* The codec, in state st and given "input", asks for its dictionary.
SignalsNeedDict(st, input) ==
    zng_inflate(st, input, 0, Z_SYNC_FLUSH).err = Z_NEED_DICT

InitDict ==
    \E b \in SeqsUpTo(PayloadBytes, 2), level \in LevelChoices,
       wbits \in {MAX_WBITS, -MAX_WBITS},
       cdict \in {NoZdict} \cup DictChoices,
       zdict \in {NoZdict} \cup DictChoices,
       kind \in {"Decompress", "ZlibDecompressor"}, k \in 0..1 :
        /\ dc = [pc |-> "start", b |-> b, level |-> level, wbits |-> wbits,
                 cdict |-> cdict, zdict |-> zdict, kind |-> kind, k |-> k,
                 obj |-> NoResult, rest |-> <<>>, acc |-> <<>>, calls |-> 0,
                 need |-> FALSE, last |-> NoResult]
        /\ os = Idle /\ ss = Idle /\ zd = Idle /\ gr = Idle /\ lk = Idle
        /\ lc = Idle /\ pz = Idle /\ gp = Idle /\ cp = Idle /\ ab = Idle

\* compressobj(level, wbits, zdict = cdict), compress(b), flush(Z_FINISH).
DcCompress ==
    /\ dc.pc = "start"
    /\ LET c == zlib_compressobj_impl(dc.level, dc.wbits, dc.cdict) IN
       IF "exc" \in DOMAIN c
       THEN dc' = [dc EXCEPT !.pc = "failed", !.last = c]
       ELSE Let(zlib_Compress_compress_impl(c, dc.b), LAMBDA r1 :
            Let(zlib_Compress_flush_impl(r1.self, Z_FINISH), LAMBDA r2 :
            dc' = [dc EXCEPT !.pc = "made",
                             !.rest = r1.res.value \o r2.res.value]))
    /\ UNCHANGED <<os, ss, zd, gr, lk, lc, pz, gp, cp, ab>>

\* decompressobj(wbits, zdict) or _ZlibDecompressor(wbits, zdict).
DcNew ==
    /\ dc.pc = "made"
    /\ LET d == IF dc.kind = "Decompress"
                THEN zlib_decompressobj_impl(dc.wbits, dc.zdict)
                ELSE ZlibDecompressor__new__(dc.wbits, dc.zdict)
       IN  dc' = IF "exc" \in DOMAIN d
                 THEN [dc EXCEPT !.pc = "failed", !.last = d]
                 ELSE [dc EXCEPT !.pc = "run", !.obj = d]
    /\ UNCHANGED <<os, ss, zd, gr, lk, lc, pz, gp, cp, ab>>

AfterDictCall(n, r, need) ==
    dc' = [dc EXCEPT !.obj = r.self, !.rest = Drop(@, n),
                     !.calls = Py_MIN(@ + 1, 2), !.need = need,
                     !.acc = @ \o r.res.value, !.last = r.res,
                     !.pc = IF r.res.ok THEN "run" ELSE "raised"]

\* Decompress.decompress(unconsumed_tail + piece, max_length = k).
DcDecompress ==
    /\ dc.pc = "run" /\ dc.kind = "Decompress"
    /\ ~dc.obj.eof
    /\ \E n \in 0..Len(dc.rest) :
         LET data == dc.obj.unconsumed_tail \o Take(dc.rest, n) IN
         Let(zlib_Decompress_decompress_impl(dc.obj, data, dc.k),
             LAMBDA r :
             AfterDictCall(n, r, SignalsNeedDict(dc.obj.zst.st, data)))
    /\ UNCHANGED <<os, ss, zd, gr, lk, lc, pz, gp, cp, ab>>

\* ZlibDecompressor.decompress(piece, max_length = k, or -1 for no limit).
DcZlibDecompressor ==
    /\ dc.pc = "run" /\ dc.kind = "ZlibDecompressor"
    /\ ~dc.obj.eof
    /\ \E n \in 0..Len(dc.rest) :
         LET data == Take(dc.rest, n) IN
         Let(zlib_ZlibDecompressor_decompress(
                 dc.obj, data, IF dc.k = 0 THEN -1 ELSE dc.k),
             LAMBDA r :
             AfterDictCall(n, r,
                 SignalsNeedDict(dc.obj.zst.st,
                                 PendingInput(dc.obj) \o data)))
    /\ UNCHANGED <<os, ss, zd, gr, lk, lc, pz, gp, cp, ab>>

NextDict == DcCompress \/ DcNew \/ DcDecompress \/ DcZlibDecompressor

SpecDict == InitDict /\ [][NextDict]_vars

\* C21: when the codec asks for its dictionary during a decompress call of
\* a Decompress or ZlibDecompressor object, a dictionary given at
\* construction is installed and the call goes on to return the data without
\* an error; without one the call raises the module's error.
C21_DictionaryInstalled ==
    (dc.pc \in {"run", "raised"} /\ dc.calls > 0 /\ dc.need) =>
        /\ dc.zdict = dc.cdict =>
              /\ dc.last.ok
              /\ dc.acc = Take(dc.b, Len(dc.acc))
              /\ dc.obj.eof => dc.acc = dc.b
        /\ dc.zdict = NoZdict => ~dc.last.ok /\ dc.last.exc = "ZlibError"

\* The bytes the codec is given by the last call of the lifecycle: the
\* argument, after the bytes a ZlibDecompressor still held; for flush the
\* unconsumed tail.
LifeInput ==
    IF lc.kind = "ZlibDecompressor" THEN PendingInput(lc.before) \o lc.data
    ELSE IF lc.op = "flush" THEN lc.before.unconsumed_tail
    ELSE lc.data

\* How many of those bytes belong to the stream: what the codec takes of
\* them when its output has all the room it needs.
LifeUsed ==
    zng_inflate(lc.before.zst.st, LifeInput, 2 * MaxPayload, Z_SYNC_FLUSH).used

\* C22: a decompress call that reaches the end of the stream while j > 0 of
\* its input bytes lie after the stream's end saves exactly those bytes, in
\* order, in unused_data and sets eof; unused_data only grows by appending
\* and, once the end of the stream was reached, never changes again.
C22_UnusedData ==
    (lc.pc = "run" /\ lc.calls > 0
       /\ lc.kind \in {"Decompress", "ZlibDecompressor"}) =>
        /\ IsPrefix(lc.before.unused_data, lc.obj.unused_data)
        /\ lc.before.eof => lc.obj.unused_data = lc.before.unused_data
        /\ (lc.op = "decompress" /\ ~lc.before.eof /\ lc.obj.eof) =>
              lc.obj.unused_data
                  = lc.before.unused_data \o Drop(LifeInput, LifeUsed)

\* All the output the codec can produce from the bytes the last call of the
\* lifecycle gave it.
LifeOutput ==
    zng_inflate(lc.before.zst.st, LifeInput, 2 * MaxPayload, Z_SYNC_FLUSH).out

\* C23: after a successful ZlibDecompressor.decompress call that is not at
\* the end of the stream, needs_input is False when the call stopped at
\* max_length while more output can be produced without new input, and it
\* is True only when all of the input supplied so far was decompressed and
\* returned.
C23_NeedsInput ==
    (/\ lc.pc = "run" /\ lc.kind = "ZlibDecompressor" /\ lc.calls > 0
     /\ lc.last.ok /\ ~lc.obj.eof) =>
        /\ Len(lc.last.value) < Len(LifeOutput) => ~lc.obj.needs_input
        /\ lc.obj.needs_input => lc.last.value = LifeOutput

(***************************************************************************)
(* Specification SpecCopy: copy() of a Compress or a Decompress object.    *)
(* The original is fed in pieces and flushed by one thread while another   *)
(* thread copies it; after the copy both objects are fed and flushed, in   *)
(* any order.  The codec's internal state (what zst.state points to) lives *)
(* in cells of a heap, which the codec changes in place; every other       *)
(* method runs under the object's lock, so it is one step, while           *)
(* Compress.copy reads is_initialised before it takes the lock.            *)
(***************************************************************************)
\* Most calls made on the objects of a copy scenario.
MaxCopyCalls == 3

\* zng_deflateCopy / zng_inflateCopy: a codec session of its own that equals
\* the source, or Z_STREAM_ERROR for a source that was ended: [st, err].
zng_deflateCopy(source) ==
    [st |-> source,
     err |-> IF source.ended THEN Z_STREAM_ERROR ELSE Z_OK]

zng_inflateCopy(source) ==
    [st |-> source,
     err |-> IF source.ended THEN Z_STREAM_ERROR ELSE Z_OK]

\* What copy() returns: the new object, or the exception.
Copied(obj) == [res |-> Return(<<>>), obj |-> obj]

NotCopied(exc) == [res |-> Raise(exc), obj |-> newcompobject]

\* The fields copy() sets in the new object once the codec session is cloned.
copy_fields_without_tail(return_value, self, st) ==
    [return_value EXCEPT !.zst = [self.zst EXCEPT !.st = st],
                         !.unused_data = self.unused_data,
                         !.zdict = self.zdict,
                         !.eof = self.eof,
                         !.is_initialised = TRUE]

copy_fields(return_value, self, st) ==
    [return_value EXCEPT !.zst = [self.zst EXCEPT !.st = st],
                         !.unused_data = self.unused_data,
                         !.unconsumed_tail = self.unconsumed_tail,
                         !.zdict = self.zdict,
                         !.eof = self.eof,
                         !.is_initialised = TRUE]

\* zlib_Compress_copy, the part before the lock is taken: the test of
\* is_initialised.
zlib_Compress_copy_check(self) == self.is_initialised

\* zlib_Compress_copy, the part under the lock.
zlib_Compress_copy_locked(self) ==
    Let(zng_deflateCopy(self.zst.st), LAMBDA c :
    IF c.err = Z_OK THEN Copied(copy_fields(newcompobject, self, c.st))
    ELSE IF c.err = Z_STREAM_ERROR THEN NotCopied("ValueError")
    ELSE IF c.err = Z_MEM_ERROR THEN NotCopied("MemoryError")
    ELSE NotCopied("ZlibError"))

zlib_Decompress_copy_unchecked(self) ==
    Let(zng_inflateCopy(self.zst.st), LAMBDA c :
    Copied(copy_fields(newcompobject, self, c.st)))

zlib_Decompress_copy(self) ==
    Let(zng_inflateCopy(self.zst.st), LAMBDA c :
    IF c.err = Z_OK THEN Copied(copy_fields(newcompobject, self, c.st))
    ELSE IF c.err = Z_STREAM_ERROR THEN NotCopied("ValueError")
    ELSE IF c.err = Z_MEM_ERROR THEN NotCopied("MemoryError")
    ELSE NotCopied("ZlibError"))

\* The dictionaries of a copy scenario.
CopyDicts == {NoZdict, <<1>>}

\* The payload of a copy scenario.
CopyPayload == <<1, 1, 0>>

\* The stream of CopyPayload made with a dictionary.
CopyStream(wbits, zdict) ==
    Let(zlib_Compress_compress_impl(zlib_compressobj_impl(6, wbits, zdict),
                                    CopyPayload), LAMBDA r1 :
    Let(zlib_Compress_flush_impl(r1.self, Z_FINISH), LAMBDA r2 :
    r1.res.value \o r2.res.value))

\* No copy() was called yet.
NoCopy == [pc |-> "idle", res |-> NoResult, fin |-> FALSE, checked |-> FALSE]

\* An object of the scenario: its fields (the codec state in the heap cell
\* "state"), the input not yet given to it, the output it has returned,
\* whether a finalizing flush has completed and whether every call on it
\* succeeded.
Session(self, state, rest, acc, fin, ok) ==
    [self |-> [self EXCEPT !.zst.st = NULL], state |-> state, rest |-> rest,
     acc |-> acc, fin |-> fin, ok |-> ok]

InitCopy ==
    \E kind \in {"Compress", "Decompress"}, wbits \in WbitsChoices,
       zdict \in CopyDicts, j \in 0..1 :
        /\ zdict # NoZdict => wbits # MAX_WBITS + 16
        /\ kind = "Compress" => j = 0
        /\ LET self == IF kind = "Compress"
                       THEN zlib_compressobj_impl(6, wbits, zdict)
                       ELSE zlib_decompressobj_impl(wbits, zdict)
           IN  cp = [pc |-> "run", kind |-> kind, wbits |-> wbits,
                     zdict |-> zdict,
                     objs |-> <<Session(
                                  self, 1,
                                  IF kind = "Compress" THEN CopyPayload
                                  ELSE CopyStream(wbits, zdict)
                                         \o TailBytes(j),
                                  <<>>, FALSE, TRUE)>>,
                     heap |-> <<self.zst.st>>, copy |-> NoCopy,
                     calls |-> 0, who |-> 0, prev |-> <<>>]
        /\ os = Idle /\ ss = Idle /\ zd = Idle /\ gr = Idle /\ lk = Idle
        /\ lc = Idle /\ pz = Idle /\ gp = Idle /\ dc = Idle /\ ab = Idle

\* The object o with its codec state.
Deref(o) == [o.self EXCEPT !.zst.st = cp.heap[o.state]]

\* What a thread can observe of object j.
View(j) ==
    [self |-> Deref(cp.objs[j]), rest |-> cp.objs[j].rest,
     acc |-> cp.objs[j].acc]

\* What a call on object i leaves: n bytes of its input were given, the
\* call answered r, fin tells that it was a finalizing flush that completed.
AfterCopyCall(i, n, r, fin) ==
    cp' = [cp EXCEPT
             !.objs[i] = Session(r.self, @.state, Drop(@.rest, n),
                                 @.acc \o r.res.value, @.fin \/ fin,
                                 @.ok /\ r.res.ok),
             !.heap[cp.objs[i].state] = r.self.zst.st,
             !.calls = @ + 1, !.who = i,
             !.prev = [j \in 1..Len(cp.objs) |-> View(j)]]

\* Compress.compress(piece) on object i.
CpCompress ==
    /\ \E i \in 1..Len(cp.objs) :
       /\ cp.pc = "run" /\ cp.kind = "Compress" /\ cp.calls < MaxCopyCalls
       /\ \E n \in 1..Len(cp.objs[i].rest) :
            Let(zlib_Compress_compress_impl(Deref(cp.objs[i]),
                                            Take(cp.objs[i].rest, n)),
                LAMBDA r : AfterCopyCall(i, n, r, FALSE))
    /\ UNCHANGED <<os, ss, zd, gr, lk, lc, pz, gp, dc, ab>>

\* Compress.flush(mode) on object i.
CpCompressFlush ==
    /\ \E i \in 1..Len(cp.objs) :
       /\ cp.pc = "run" /\ cp.kind = "Compress" /\ cp.calls < MaxCopyCalls
       /\ \E mode \in {Z_SYNC_FLUSH, Z_FINISH} :
            Let(zlib_Compress_flush_impl(Deref(cp.objs[i]), mode),
                LAMBDA r : AfterCopyCall(i, 0, r,
                                         r.res.ok /\ mode = Z_FINISH))
    /\ UNCHANGED <<os, ss, zd, gr, lk, lc, pz, gp, dc, ab>>

\* Decompress.decompress(unconsumed_tail + piece, max_length) on object i.
CpDecompress ==
    /\ \E i \in 1..Len(cp.objs) :
       /\ cp.pc = "run" /\ cp.kind = "Decompress" /\ cp.calls < MaxCopyCalls
       /\ \E n \in 1..Len(cp.objs[i].rest), max_length \in 0..1 :
            Let(zlib_Decompress_decompress_impl(
                    Deref(cp.objs[i]),
                    cp.objs[i].self.unconsumed_tail \o Take(cp.objs[i].rest, n),
                    max_length),
                LAMBDA r : AfterCopyCall(i, n, r, FALSE))
    /\ UNCHANGED <<os, ss, zd, gr, lk, lc, pz, gp, dc, ab>>

\* Decompress.flush() on object i.
CpDecompressFlush ==
    /\ \E i \in 1..Len(cp.objs) :
       /\ cp.pc = "run" /\ cp.kind = "Decompress" /\ cp.calls < MaxCopyCalls
       /\ Let(zlib_Decompress_flush_impl(Deref(cp.objs[i]), DEF_BUF_SIZE),
              LAMBDA r : AfterCopyCall(i, 0, r, r.res.ok /\ r.self.eof))
    /\ UNCHANGED <<os, ss, zd, gr, lk, lc, pz, gp, dc, ab>>

\* What copy() of the original leaves once it has returned r.
AfterCopy(r, checked) ==
    cp' = [cp EXCEPT
             !.objs = IF r.res.ok
                      THEN Append(@, Session(r.obj, Len(cp.heap) + 1,
                                             cp.objs[1].rest, cp.objs[1].acc,
                                             FALSE, cp.objs[1].ok))
                      ELSE @,
             !.heap = IF r.res.ok THEN Append(@, r.obj.zst.st) ELSE @,
             !.copy = [pc |-> "done", res |-> r.res, fin |-> cp.objs[1].fin,
                       checked |-> checked],
             !.who = 0,
             !.prev = [j \in 1..Len(cp.objs) |-> View(j)]]

\* Compress.copy() up to the lock: is_initialised is tested.
CpCopyCheck ==
    /\ cp.pc = "run" /\ cp.kind = "Compress" /\ cp.copy.pc = "idle"
    /\ IF zlib_Compress_copy_check(Deref(cp.objs[1]))
       THEN cp' = [cp EXCEPT !.copy.pc = "checked"]
       ELSE AfterCopy(NotCopied("ValueError"), FALSE)
    /\ UNCHANGED <<os, ss, zd, gr, lk, lc, pz, gp, dc, ab>>

\* Compress.copy() under the lock.
CpCopyClone ==
    /\ cp.pc = "run" /\ cp.kind = "Compress" /\ cp.copy.pc = "checked"
    /\ AfterCopy(zlib_Compress_copy_locked(Deref(cp.objs[1])), TRUE)
    /\ UNCHANGED <<os, ss, zd, gr, lk, lc, pz, gp, dc, ab>>

\* Decompress.copy().
CpCopyDecompress ==
    /\ cp.pc = "run" /\ cp.kind = "Decompress" /\ cp.copy.pc = "idle"
    /\ AfterCopy(zlib_Decompress_copy(Deref(cp.objs[1])), FALSE)
    /\ UNCHANGED <<os, ss, zd, gr, lk, lc, pz, gp, dc, ab>>

NextCopy ==
    \/ CpCompress
    \/ CpCompressFlush
    \/ CpDecompress
    \/ CpDecompressFlush
    \/ CpCopyCheck
    \/ CpCopyClone
    \/ CpCopyDecompress

SpecCopy == InitCopy /\ [][NextCopy]_vars

\* C24: copy() of a finalized object (a compressor after flush(Z_FINISH), a
\* decompressor after a flush that reached the end of the stream) fails with
\* an error and yields no new object, also when the finalizing flush of
\* another thread completes between copy's test of is_initialised and the
\* clone of the codec session.
C24_NoCopyOfFinalized ==
    (cp.pc = "run" /\ cp.copy.pc = "done" /\ cp.copy.fin) =>
        /\ ~cp.copy.res.ok
        /\ Len(cp.objs) = 1
        /\ Len(cp.heap) = 1

\* The finalizing flush completed after copy() had found the compressor
\* initialised, and the copy failed.
C24_Witness ==
    /\ cp.pc = "run" /\ cp.copy.pc = "done" /\ cp.copy.fin
    /\ cp.copy.checked
    /\ cp.copy.res.exc = "ValueError"

\* A copy of a finalized decompressor failed.
C24_WitnessDecompress ==
    /\ cp.pc = "run" /\ cp.kind = "Decompress"
    /\ cp.copy.pc = "done" /\ cp.copy.fin
    /\ cp.copy.res.exc = "ValueError"

\* What a decompressor with the scenario's dictionary makes of a stream.
CopyDecoded(stream) ==
    zlib_Decompress_decompress_impl(
        zlib_decompressobj_impl(cp.wbits, cp.zdict), stream, 0).res

\* Object i, a compressor, has done what a compressor used alone does: once
\* finalized it has returned a complete stream of the input given to it.
ActsAlone(i) ==
    (cp.kind = "Compress" /\ cp.objs[i].fin) =>
        CopyDecoded(cp.objs[i].acc)
            = Return(Take(CopyPayload,
                          Len(CopyPayload) - Len(cp.objs[i].rest)))

\* C25: after a successful copy() the original and the copy are independent:
\* a call on one changes nothing of the other (eof, unused_data,
\* unconsumed_tail, is_initialised, codec state), and a compressor and its
\* copy each return a complete stream of their own input; right after the
\* copy, the copy's eof, unused_data, unconsumed_tail and dictionary (and
\* its codec state, in a cell of its own) equal the original's.
C25_CopyIndependent ==
    (cp.pc = "run" /\ Len(cp.objs) = 2) =>
        /\ cp.objs[1].state # cp.objs[2].state
        /\ cp.who = 0 =>
              /\ Deref(cp.objs[2]).eof = Deref(cp.objs[1]).eof
              /\ Deref(cp.objs[2]).unused_data
                    = Deref(cp.objs[1]).unused_data
              /\ Deref(cp.objs[2]).unconsumed_tail
                    = Deref(cp.objs[1]).unconsumed_tail
              /\ Deref(cp.objs[2]).zdict = Deref(cp.objs[1]).zdict
              /\ Deref(cp.objs[2]).zst.st = Deref(cp.objs[1]).zst.st
              /\ Deref(cp.objs[2]).is_initialised
        /\ (cp.who \in 1..2 /\ Len(cp.prev) = 2) =>
              View(3 - cp.who) = cp.prev[3 - cp.who]
        /\ \A i \in 1..2 : cp.objs[i].ok => ActsAlone(i)

\* A decompressor was copied while it held an unconsumed tail, and the
\* copy was then taken to the end of the stream while the original stayed
\* where it was.
C25_Witness ==
    /\ cp.pc = "run" /\ cp.kind = "Decompress" /\ Len(cp.objs) = 2
    /\ cp.who = 2
    /\ cp.prev[2].self.unconsumed_tail # <<>>
    /\ Deref(cp.objs[2]).eof /\ ~Deref(cp.objs[1]).eof
    /\ cp.objs[2].acc = CopyPayload
    /\ cp.objs[1].acc # CopyPayload

\* A compressor was copied and the two were finalized with different input.
C25_WitnessCompress ==
    /\ cp.pc = "run" /\ cp.kind = "Compress" /\ Len(cp.objs) = 2
    /\ cp.objs[1].fin /\ cp.objs[2].fin
    /\ cp.objs[1].ok /\ cp.objs[2].ok
    /\ cp.objs[1].rest # cp.objs[2].rest

\* GzipReader.tell().
GzipReader_tell(self) == self._pos

\* C26: between two calls on a GzipReader over a valid stream, tell() is
\* the number of decompressed bytes between the start of the stream and the
\* current point: the bytes delivered so far, or, after seek(t), t plus the
\* bytes delivered since; _size is -1 until the end of the input has been
\* observed, which takes all bytes to have been produced, and is the total
\* decompressed size from then on.
C26_TellAndSize ==
    (/\ gr.pc \in {"idle", "finished"} /\ gr.valid
     /\ gr.outcome \in {"running", "end"}) =>
        /\ GzipReader_tell(gr.self)
              = IF gr.sought THEN gr.target + Len(gr.after) ELSE Len(gr.acc)
        /\ gr.self._size \in {-1, Len(gr.plain)}
        /\ (gr.target = -1 /\ Len(gr.acc) < Len(gr.plain)) =>
              gr.self._size = -1
        /\ gr.outcome = "end" => gr.self._size = Len(gr.plain)

\* A reader was taken some way into the stream, sent back to an earlier
\* offset that is not the start, and read to the end from there.
C26_Witness ==
    /\ gr.pc = "finished" /\ gr.valid /\ gr.outcome = "end"
    /\ gr.sought /\ gr.target > 0
    /\ Len(gr.acc) - Len(gr.after) > gr.target
    /\ GzipReader_tell(gr.self) = Len(gr.plain)
    /\ gr.self._size = Len(gr.plain)

\* The input bytes a ZlibDecompressor still accounts for after the last call
\* of the lifecycle: unused_data at the end of the stream, else the pending
\* bytes [next_in, next_in + avail_in_real).
LifeLeft ==
    IF lc.obj.eof THEN lc.obj.unused_data ELSE PendingInput(lc.obj)

\* The rest of the call's input: the bytes the codec must have consumed.
LifeTaken == Take(LifeInput, Len(LifeInput) - Len(LifeLeft))

\* C27: every successful ZlibDecompressor.decompress call accounts for each
\* byte of its input (the pending bytes followed by the new data) exactly
\* once and in order: the bytes pending afterwards, or stored in
\* unused_data, are the end of the input, and the bytes before them are
\* exactly what the codec has consumed to produce the bytes returned, also
\* when the call stops at max_length while input beyond the first input
\* window is pending.
C27_InputAccounted ==
    (/\ lc.pc = "run" /\ lc.kind = "ZlibDecompressor" /\ lc.calls > 0
     /\ lc.op = "decompress" /\ lc.last.ok) =>
        /\ Len(LifeLeft) <= Len(LifeInput)
        /\ LifeInput = LifeTaken \o LifeLeft
        /\ Let(zng_inflate(lc.before.zst.st, LifeTaken, Len(lc.last.value),
                           Z_SYNC_FLUSH), LAMBDA r :
              /\ r.used = Len(LifeTaken)
              /\ r.out = lc.last.value
              /\ [r.st EXCEPT !.ended = lc.obj.zst.st.ended,
                               !.ends = lc.obj.zst.st.ends] = lc.obj.zst.st)

\* C28: Decompress.decompress(data, max_length = k) with k > 0 never raises
\* for reaching the limit and returns at most k bytes, exactly k when input
\* is left over; unconsumed_tail is then the exact part of data the codec
\* has not consumed, also beyond the first input window, so that what has
\* been returned so far, followed by what the codec makes of unconsumed_tail
\* and the input not yet supplied, is the whole payload; and when all of the
\* input was consumed unconsumed_tail is empty.
C28_TailExact ==
    (zd.pc = "run" /\ zd.kind = "Decompress" /\ zd.k > 0 /\ zd.calls > 0) =>
        /\ zd.last.ok
        /\ Len(zd.last.value) <= zd.k
        /\ zd.obj.unconsumed_tail # <<>> => Len(zd.last.value) = zd.k
        /\ Len(zd.last.value) < zd.k => zd.obj.unconsumed_tail = <<>>
        /\ Let(zng_inflate(zd.obj.zst.st, zd.obj.unconsumed_tail \o zd.rest,
                           MaxPayload + 1, Z_SYNC_FLUSH), LAMBDA r :
              /\ r.err = Z_STREAM_END
              /\ zd.acc \o r.out = zd.b)

\* The last call of the lifecycle was not stopped by an output limit: it is
\* a flush, or a decompress call that went as the same call without a limit
\* goes.
NotCapped ==
    \/ lc.op = "flush"
    \/ /\ lc.op = "decompress"
       /\ zlib_Decompress_decompress_impl(lc.before, lc.data, 0)
             = [self |-> lc.obj, res |-> lc.last]

\* C29: unconsumed_tail of a Decompress object is empty after every
\* decompress or flush call that was not stopped by the output limit:
\* calls without a limit, calls that consumed all of their input, calls
\* that reached the end of the stream, with or without bytes after it, and
\* calls that failed.
C29_TailOnlyAfterCap ==
    (/\ lc.pc = "run" /\ lc.kind = "Decompress" /\ lc.calls > 0
     /\ NotCapped) =>
        lc.obj.unconsumed_tail = <<>>

(***************************************************************************)
(* Specification SpecArrange: arrange_output_buffer_with_maximum as the    *)
(* loops of the module use it: called on a buffer that does not exist yet, *)
(* then again after the codec has written any part of the space announced  *)
(* to it, the length it returns being the length of the next call.         *)
(***************************************************************************)
\* Largest initial length of a buffer.
MaxLength == 5
\* Largest max_length below PY_SSIZE_T_MAX.
MaxRoom == 9
\* Most bytes written into a buffer.
MaxWritten == 8

InitArrange ==
    \E max_length \in 0..MaxRoom \cup {PY_SSIZE_T_MAX},
       length \in 0..MaxLength :
        /\ length <= max_length
        /\ ab = [pc |-> "arrange", max_length |-> max_length,
                 length |-> length, buffer |-> NULL, zst |-> NewStream(NULL),
                 ret |-> 0,
                 prev |-> [length |-> length, buffer |-> NULL,
                           zst |-> NewStream(NULL)]]
        /\ os = Idle /\ ss = Idle /\ zd = Idle /\ gr = Idle /\ lk = Idle
        /\ lc = Idle /\ pz = Idle /\ gp = Idle /\ dc = Idle /\ cp = Idle

\* obuflen = arrange_output_buffer_with_maximum(&zst, &buffer, obuflen,
\* max_length).
AbArrange ==
    /\ ab.pc = "arrange"
    /\ Let(arrange_output_buffer_with_maximum(ab.zst, ab.buffer, ab.length,
                                              ab.max_length), LAMBDA r :
           ab' = [ab EXCEPT
                    !.pc = IF r.ret < 0 THEN "exhausted" ELSE "write",
                    !.prev = [length |-> ab.length, buffer |-> ab.buffer,
                              zst |-> ab.zst],
                    !.ret = r.ret, !.zst = r.zst, !.buffer = r.buffer,
                    !.length = IF r.ret < 0 THEN @ ELSE r.ret])
    /\ UNCHANGED <<os, ss, zd, gr, lk, lc, pz, gp, dc, cp>>

\* The codec writes n bytes of the space announced to it.
AbWrite ==
    /\ ab.pc = "write"
    /\ \E n \in 0..ab.zst.avail_out :
          /\ Len(ab.zst.out) + n <= MaxWritten
          /\ ab' = [ab EXCEPT
                      !.pc = "arrange",
                      !.zst.out = @ \o [i \in 1..n |-> (Len(@) + i) % 2],
                      !.zst.avail_out = @ - n]
    /\ UNCHANGED <<os, ss, zd, gr, lk, lc, pz, gp, dc, cp>>

NextArrange == AbArrange \/ AbWrite

SpecArrange == InitArrange /\ [][NextArrange]_vars

\* The bytes written into the buffer a call was given.
Occupied == IF ab.prev.buffer = NULL THEN 0 ELSE Len(ab.prev.zst.out)

\* C30: arrange_output_buffer_with_maximum(buffer, L, M) with L <= M:
\* without a buffer it allocates L bytes with the cursor at 0; for a buffer
\* that is not full it keeps L; for a buffer that is exactly full it answers
\* "exhausted" (-2) if and only if L = M and else resizes to min(2L, M); the
\* bytes written are kept, the cursor is at the occupied count, the space
\* announced to the codec is min(length - occupied, UINT32_MAX), and the
\* length returned never exceeds M.
C30_ArrangeOutput ==
    (ab.pc \in {"write", "exhausted"}) =>
        /\ ab.prev.length <= ab.max_length
        /\ ab.prev.buffer = NULL =>
              /\ ab.ret = ab.prev.length
              /\ ab.buffer = ab.prev.length
              /\ ab.zst.out = <<>>
        /\ (ab.prev.buffer # NULL /\ Occupied < ab.prev.length) =>
              /\ ab.ret = ab.prev.length
              /\ ab.buffer = ab.prev.buffer
        /\ (ab.prev.buffer # NULL /\ Occupied = ab.prev.length) =>
              /\ ab.ret = -2 <=> ab.prev.length = ab.max_length
              /\ ab.prev.length < ab.max_length =>
                    /\ ab.ret = Py_MIN(2 * ab.prev.length, ab.max_length)
                    /\ ab.buffer = ab.ret
        /\ ab.ret = -2 =>
              /\ ab.zst = ab.prev.zst
              /\ ab.buffer = ab.prev.buffer
        /\ ab.ret >= 0 =>
              /\ ab.ret <= ab.max_length
              /\ ab.ret >= Occupied
              /\ ab.prev.buffer # NULL => ab.zst.out = ab.prev.zst.out
              /\ Len(ab.zst.out) = Occupied
              /\ ab.zst.avail_out = Py_MIN(ab.ret - Occupied, UINT32_MAX)

\* A full buffer was resized to a max_length below twice its length, and
\* more space than the codec can be told of is free after it.
C30_Witness ==
    /\ ab.pc = "write"
    /\ ab.prev.buffer # NULL /\ Occupied = ab.prev.length
    /\ ab.ret = ab.max_length /\ ab.ret < 2 * ab.prev.length
    /\ ab.ret - Occupied > UINT32_MAX
    /\ ab.zst.avail_out = UINT32_MAX

\* A buffer that is full at max_length is exhausted.
C30_WitnessExhausted ==
    /\ ab.pc = "exhausted" /\ ab.ret = -2
    /\ ab.prev.length = ab.max_length /\ ab.max_length > MaxLength

(***************************************************************************)
(* The one-shot loops round by round (zlib_compress_impl 233-258,          *)
(* zlib_decompress_impl 316-349).  os is [pc, kind, src, data, level,      *)
(* wbits, ibuflen, before, zst, buffer, bufsize, flush, err, rounds, res].  *)
(* rounds has one entry [before, avail_in, after, flush] per turn of the    *)
(* outer loop, flush being the mode handed to the codec in that turn.      *)
(***************************************************************************)
MaxRoundInput == 7

RoundLevels == {0, 6}

\* Inputs of compress: every payload, and longer ones that need three rounds.
RoundPlain ==
    SeqsUpTo(PayloadBytes, MaxPayload)
        \cup {[i \in 1..k |-> 1] : k \in (MaxPayload + 1)..MaxRoundInput}

\* Inputs of decompress: a stream cut after "cut" bytes, or a whole stream
\* followed by "tail".
RoundSources ==
    UNION {
      Let(zlib_compress_impl(b, level, wbits).value, LAMBDA s :
          {[plain |-> b, stream |-> s, cut |-> i, tail |-> <<>>,
            data |-> Take(s, i), wbits |-> wbits] : i \in 0..Len(s)}
          \cup {[plain |-> b, stream |-> s, cut |-> Len(s),
                 tail |-> TailBytes(j), data |-> s \o TailBytes(j),
                 wbits |-> wbits] : j \in 1..MaxTail}) :
      b \in SeqsUpTo(PayloadBytes, MaxPayload - 1), level \in RoundLevels,
      wbits \in WbitsChoices }

NoSource == [plain |-> <<>>, stream |-> <<>>, cut |-> 0, tail |-> <<>>,
             data |-> <<>>, wbits |-> 0]

RoundStart(kind, src, data, level, wbits, bufsize, st) ==
    [pc |-> "arrange", kind |-> kind, src |-> src, data |-> data,
     level |-> level, wbits |-> wbits, ibuflen |-> Len(data),
     zst |-> NewStream(st), buffer |-> NULL, bufsize |-> bufsize,
     before |-> Len(data), flush |-> Z_NO_FLUSH, err |-> Z_OK, rounds |-> <<>>, res |-> NoResult]

InitRounds ==
    /\ \/ \E b \in RoundPlain, level \in RoundLevels, wbits \in WbitsChoices :
            os = RoundStart("compress", NoSource, b, level, wbits,
                            DEF_BUF_SIZE, zng_deflateInit2(level, wbits))
       \/ \E src \in RoundSources, bufsize \in 1..DEF_BUF_SIZE :
            os = RoundStart("decompress", src, src.data, 0, src.wbits,
                            bufsize, zng_inflateInit2(src.wbits))
    /\ ss = Idle /\ zd = Idle /\ gr = Idle /\ lk = Idle /\ lc = Idle
    /\ pz = Idle /\ gp = Idle /\ dc = Idle /\ cp = Idle /\ ab = Idle

\* flush = ibuflen == 0 ? Z_FINISH : Z_NO_FLUSH
one_shot_flush(ibuflen) == IF ibuflen = 0 THEN Z_FINISH ELSE Z_NO_FLUSH

\* } while (flush != Z_FINISH);
compress_goes_on(flush) == flush # Z_FINISH

\* } while (err != Z_STREAM_END && ibuflen != 0);
decompress_goes_on(err, ibuflen) == err # Z_STREAM_END /\ ibuflen # 0

\* Mutant: a stream that has not ended gives the output produced so far.
decompress_return_partial(zst, err) ==
    IF err \notin {Z_OK, Z_BUF_ERROR, Z_STREAM_END} THEN Raise("ZlibError")
    ELSE Return(zst.out)

\* After the loop: zlib_error unless err == Z_STREAM_END, else the bytes
\* written, the buffer cut to next_out.
decompress_return(zst, err) ==
    IF err # Z_STREAM_END THEN Raise("ZlibError")
    ELSE Return(zst.out)

\* arrange_input_buffer and the choice of the flush mode.
RoundArrange ==
    /\ os.pc = "arrange"
    /\ LET ai == arrange_input_buffer(os.zst, os.ibuflen) IN
       os' = [os EXCEPT !.pc = "codec", !.zst = ai.zst,
                        !.before = os.ibuflen, !.ibuflen = ai.remains,
                        !.flush = one_shot_flush(ai.remains)]
    /\ UNCHANGED <<ss, zd, gr, lk, lc, pz, gp, dc, cp, ab>>

Round ==
    [before |-> os.before, avail_in |-> os.zst.avail_in, after |-> os.ibuflen,
     flush |-> os.flush]

\* The inner loop of zlib_compress_impl, the test of the outer one and the
\* return.
RoundDeflate ==
    /\ os.pc = "codec" /\ os.kind = "compress"
    /\ Let(DeflateRounds(os.zst, os.data, os.buffer, os.bufsize, os.flush),
           LAMBDA r :
       LET failed == r.err \in {Z_MEM_ERROR, Z_STREAM_ERROR}
           again == ~failed /\ compress_goes_on(os.flush)
       IN  os' = [os EXCEPT
                    !.pc = IF again THEN "arrange" ELSE "done",
                    !.zst = r.zst, !.buffer = r.buffer,
                    !.bufsize = r.obuflen, !.err = r.err,
                    !.rounds = Append(@, Round),
                    !.res = IF again THEN @
                            ELSE IF r.err = Z_MEM_ERROR
                            THEN Raise("MemoryError")
                            ELSE IF r.err = Z_STREAM_ERROR
                            THEN Raise("ZlibError")
                            ELSE Return(r.zst.out)])
    /\ UNCHANGED <<ss, zd, gr, lk, lc, pz, gp, dc, cp, ab>>

\* The inner loop of zlib_decompress_impl, the test of the outer one and the
\* return.
RoundInflate ==
    /\ os.pc = "codec" /\ os.kind = "decompress"
    /\ Let(InflateRounds(os.zst, os.data, os.buffer, os.bufsize, os.flush),
           LAMBDA r :
       LET failed == r.err \notin {Z_OK, Z_BUF_ERROR, Z_STREAM_END}
           again == ~failed /\ decompress_goes_on(r.err, os.ibuflen)
       IN  os' = [os EXCEPT
                    !.pc = IF again THEN "arrange" ELSE "done",
                    !.zst = r.zst, !.buffer = r.buffer,
                    !.bufsize = r.obuflen, !.err = r.err,
                    !.rounds = Append(@, Round),
                    !.res = IF again THEN @
                            ELSE IF r.err = Z_MEM_ERROR
                            THEN Raise("MemoryError")
                            ELSE decompress_return(r.zst, r.err)])
    /\ UNCHANGED <<ss, zd, gr, lk, lc, pz, gp, dc, cp, ab>>

NextRounds == RoundArrange \/ RoundDeflate \/ RoundInflate

SpecRounds == InitRounds /\ [][NextRounds]_vars

RECURSIVE Claimed(_)
Claimed(rounds) ==
    IF rounds = <<>> THEN 0
    ELSE rounds[Len(rounds)].avail_in + Claimed(Take(rounds, Len(rounds) - 1))

\* Every round claims min(remaining, UINT32_MAX) bytes and takes exactly
\* them off the remaining length, the rounds follow one another, and the
\* codec is handed Z_FINISH in a round iff the round leaves nothing.
RoundsInOrder ==
    /\ \A i \in 1..Len(os.rounds) :
         LET r == os.rounds[i] IN
         /\ r.before = IF i = 1 THEN Len(os.data) ELSE os.rounds[i - 1].after
         /\ r.avail_in = (IF r.before < UINT32_MAX THEN r.before
                          ELSE UINT32_MAX)
         /\ r.after = r.before - r.avail_in
         /\ (r.flush = Z_FINISH) = (r.after = 0)
         /\ r.flush \in {Z_FINISH, Z_NO_FLUSH}
    /\ os.pc = "done" => Len(os.rounds) >= 1

\* C31 as stated: moreover the caller loops until remaining == 0, so that the
\* claims of all rounds add up to n.
C31_RoundsUntilEmpty ==
    /\ RoundsInOrder
    /\ os.pc = "done" =>
         /\ os.ibuflen = 0
         /\ Claimed(os.rounds) = Len(os.data)

\* C31, amended: the loop of compress ends with remaining == 0 and the claims
\* adding up to n; the loop of decompress ends when remaining == 0 or, before
\* that, when the codec reports the end of the stream or an error, the claims
\* adding up to n minus what remains.
C31_RoundsUntilEmptyOrEnd ==
    /\ RoundsInOrder
    /\ Claimed(os.rounds) + os.ibuflen
         + (IF os.pc = "codec" THEN os.zst.avail_in ELSE 0) = Len(os.data)
    /\ (os.pc = "done" /\ os.kind = "compress" /\ os.res.ok) =>
         os.ibuflen = 0 /\ Claimed(os.rounds) = Len(os.data)
    /\ (os.pc = "done" /\ os.kind = "decompress" /\ os.ibuflen # 0) =>
         os.err \notin {Z_OK, Z_BUF_ERROR}
    /\ (os.pc = "done" /\ os.kind = "decompress"
          /\ os.err \in {Z_OK, Z_BUF_ERROR}) =>
         os.ibuflen = 0 /\ Claimed(os.rounds) = Len(os.data)

\* Three rounds of compress, the last one alone with Z_FINISH.
C31_Witness ==
    /\ os.pc = "done" /\ "rounds" \in DOMAIN os /\ os.kind = "compress"
    /\ Len(os.rounds) = 3 /\ os.rounds[3].flush = Z_FINISH
    /\ os.rounds[1].flush = Z_NO_FLUSH /\ os.res.ok

\* The single round of an empty input.
C31_WitnessEmpty ==
    /\ os.pc = "done" /\ "rounds" \in DOMAIN os /\ os.data = <<>>
    /\ Len(os.rounds) = 1 /\ os.rounds[1].flush = Z_FINISH

\* The loop of decompress left at the end of the stream with input remaining.
C31_WitnessEarlyEnd ==
    /\ os.pc = "done" /\ "rounds" \in DOMAIN os /\ os.kind = "decompress"
    /\ os.ibuflen > 0 /\ os.err = Z_STREAM_END /\ os.res.ok

\* C32: one-shot decompress returns bytes only if the codec reported the end
\* of the stream within the data; data that ends before the end of the
\* stream, empty data included, gives ZlibError and not the output produced
\* so far; bytes after the end of the stream do not change the result.
C32_OnlyWholeStreams ==
    (os.pc = "done" /\ os.kind = "decompress") =>
        /\ os.res.ok =>
              os.err = Z_STREAM_END /\ os.src.cut = Len(os.src.stream)
        /\ os.src.cut < Len(os.src.stream) => os.res = Raise("ZlibError")
        /\ os.src.cut = Len(os.src.stream) => os.res = Return(os.src.plain)
        /\ os.res = zlib_decompress_impl(os.data, os.wbits, os.bufsize)

\* Data cut inside the stream after output was produced: the call fails.
C32_Witness ==
    /\ os.pc = "done" /\ "rounds" \in DOMAIN os /\ os.kind = "decompress"
    /\ os.src.cut < Len(os.src.stream) /\ Len(os.zst.out) > 0
    /\ os.res = Raise("ZlibError")

\* A whole stream followed by bytes that lie in a later input window.
C32_WitnessTail ==
    /\ os.pc = "done" /\ "rounds" \in DOMAIN os /\ os.kind = "decompress"
    /\ os.src.tail # <<>> /\ os.res = Return(os.src.plain)
    /\ os.src.plain # <<>> /\ os.ibuflen > 0

\* Empty data.
C32_WitnessEmpty ==
    /\ os.pc = "done" /\ "rounds" \in DOMAIN os /\ os.kind = "decompress"
    /\ os.data = <<>> /\ os.res = Raise("ZlibError")

\* A readinto call, one call of read_into_buffer with room for gr.n bytes,
\* returns in this step without an error.
ReadReturns ==
    /\ gr.pc \in {"idle", "read_from_file"}
    /\ gr'.api = "readinto"
    /\ gr'.pc \in {"idle", "finished"}
    /\ gr'.outcome \in {"running", "end"}

\* C33: a call of read_into_buffer with room for n > 0 bytes returns fewer
\* than n bytes, 0 bytes in particular, only when the end of the input has
\* been reached and the size recorded (_size == _pos >= 0); otherwise it
\* returns exactly n bytes or fails.
C33_ShortReadAtEnd ==
    [][(ReadReturns /\ Len(gr'.acc) - Len(gr.acc) < gr.n) =>
          /\ gr'.self.all_bytes_read
          /\ gr'.self._size = gr'.self._pos
          /\ gr'.self._size >= 0]_vars

\* After a seek into the stream a read has returned fewer bytes than asked
\* for, and more than none.
C33_Witness ==
    /\ gr.pc = "idle" /\ gr.api = "readinto" /\ gr.sought
    /\ gr.n = MaxRead /\ gr.after # <<>> /\ Len(gr.after) % gr.n # 0
    /\ gr.self._size = gr.self._pos /\ gr.self.all_bytes_read

(***************************************************************************)
(* Specification SpecCalls: up to MaxGzCalls calls of read, readinto,      *)
(* readall and seek on one GzipReader, in any order, also after a call has *)
(* failed.  gr is [pc, data, plain, valid, style, self, frame, op, calls,  *)
(* asks, last, before, failed, was_failed]: op the call made last, asks    *)
(* the number of fp.readinto calls made so far modulo 2, last what the     *)
(* call returned (the bytes, or <<position>> for a seek) or raised, before *)
(* the reader as the call found it, failed whether a read has failed with  *)
(* a container or stream error since the last seek, was_failed the same as *)
(* the last call found it.                                                 *)
(***************************************************************************)
MaxGzCalls == 3

\* The member the streams of this specification are made of.
CallMember == gzip_member(<<1, 1, 0, 0>>, 0)

CallPlain == <<1, 1, 0, 0>>

\* Two members; one member and two members with the last one cut short or
\* changed in one byte.
CallInputs ==
    {[data |-> CallMember \o CallMember, plain |-> CallPlain \o CallPlain,
      valid |-> TRUE]}
    \cup {[data |-> first \o d, plain |-> <<>>, valid |-> FALSE] :
            first \in {<<>>, CallMember},
            d \in Truncated(CallMember) \cup Corrupted(CallMember)}

ReadOps ==
    {[api |-> "readall", n |-> 0, whence |-> 0]}
    \cup {[api |-> "readinto", n |-> n, whence |-> 0] : n \in {1, MaxRead}}
    \cup {[api |-> "read", n |-> 2, whence |-> 0]}

\* Targets before the start, inside and after the end of a stream of S bytes,
\* and a whence that is none of the three.
SeekOps(S) ==
    {[api |-> "seek", n |-> n, whence |-> w] :
        n \in {-1, 2, S + 1}, w \in {SEEK_SET, SEEK_CUR}}
    \cup {[api |-> "seek", n |-> n, whence |-> SEEK_END] :
            n \in {-(S + 1), -1, 0, 1}}
    \cup {[api |-> "seek", n |-> 0, whence |-> 3]}

NoOp == [api |-> "none", n |-> 0, whence |-> 0]

\* The byte sources: fp.readinto stores one byte at a time, or as many as
\* the view takes.
SourceStyles == {"one", "most"}

InitCalls ==
    \E i \in CallInputs, is_file \in BOOLEAN,
       buffer_size \in 1..MaxBufferSize, style \in SourceStyles :
        /\ ~is_file => (buffer_size = 1 /\ style = "most")
        /\ gr = [pc |-> "idle", data |-> i.data, plain |-> i.plain,
                 valid |-> i.valid, style |-> style,
                 self |-> GzipReader__new__(i.data, is_file, buffer_size),
                 frame |-> NoFrame, op |-> NoOp, calls |-> 0, asks |-> 0,
                 last |-> NoResult,
                 before |-> GzipReader__new__(i.data, is_file, buffer_size),
                 failed |-> FALSE, was_failed |-> FALSE]
        /\ os = Idle /\ ss = Idle /\ zd = Idle /\ lk = Idle /\ lc = Idle
        /\ pz = Idle /\ gp = Idle /\ dc = Idle /\ cp = Idle /\ ab = Idle

\* The errors of the container and of the stream.
StreamErrors == {"BadGzipFile", "ZlibError", "EOFError"}

\* The reading after a method has run up to read_from_file or to its end.
AfterCallRun(g, r) ==
    IF r.status = "read_from_file"
    THEN [g EXCEPT !.pc = "read_from_file", !.self = r.self,
                   !.frame = r.frame]
    ELSE [g EXCEPT !.pc = "idle", !.self = r.self, !.frame = NoFrame,
                   !.last = IF g.op.api = "seek" /\ r.res.ok
                            THEN Return(<<r.res.value>>) ELSE r.res,
                   !.failed = IF g.op.api = "seek" THEN FALSE
                              ELSE @ \/ r.res.exc \in StreamErrors]

StartCall(op) ==
    [gr EXCEPT !.op = op, !.calls = @ + 1, !.before = gr.self,
               !.was_failed = gr.failed]

\* A read, readinto or readall call.
GcRead ==
    /\ gr.pc = "idle" /\ gr.calls < MaxGzCalls
    /\ \E op \in ReadOps :
         gr' = AfterCallRun(StartCall(op),
                   IF op.api = "readall" THEN GzipReader_readall(gr.self)
                   ELSE IF op.api = "read"
                   THEN GzipReader_read(gr.self, op.n)
                   ELSE GzipReader_readinto(gr.self, op.n))
    /\ UNCHANGED <<os, ss, zd, lk, lc, pz, gp, dc, cp, ab>>

\* A seek call.
GcSeek ==
    /\ gr.pc = "idle" /\ gr.calls < MaxGzCalls /\ gr.valid
    /\ \E op \in SeekOps(Len(gr.plain)) :
         gr' = AfterCallRun(StartCall(op),
                            GzipReader_seek(gr.self, op.n, op.whence))
    /\ UNCHANGED <<os, ss, zd, lk, lc, pz, gp, dc, cp, ab>>

\* What fp.readinto answers in this behaviour.
StyleCounts(style, counts) ==
    IF style = "one" THEN {CHOOSE k \in counts : \A j \in counts : k <= j}
    ELSE {CHOOSE k \in counts : \A j \in counts : k >= j}

\* fp.readinto answers, read_from_file returns and the method goes on.
GcReadFromFile ==
    /\ gr.pc = "read_from_file"
    /\ \E new_size \in StyleCounts(gr.style,
                                   ReadintoCounts(gr.self.fp,
                                                  read_in_size(gr.self))) :
          gr' = AfterCallRun([gr EXCEPT !.asks = 1 - @],
                             RunCall(GzipReader_read_from_file(gr.self,
                                                               new_size),
                                     gr.frame))
    /\ UNCHANGED <<os, ss, zd, lk, lc, pz, gp, dc, cp, ab>>

NextCalls == GcRead \/ GcSeek \/ GcReadFromFile

SpecCalls == InitCalls /\ [][NextCalls]_vars

\* GcReadFromFile is enabled exactly when the reader waits in
\* read_from_file, fp.readinto having an answer for every view.  ReadAsked
\* states that condition as an action; no step of NextCalls is one of it,
\* since no call leaves the reader "asked".
ReadAsked ==
    /\ gr.pc = "read_from_file"
    /\ gr' = [gr EXCEPT !.pc = "asked"]
    /\ UNCHANGED <<os, ss, zd, lk, lc, pz, gp, dc, cp, ab>>

\* A call that has started goes on: the thread runs, and fp.readinto
\* answers.  This is weak fairness of GcReadFromFile, its enabling condition
\* being given by ReadAsked.
SpecCallsFair == SpecCalls /\ WF_vars(ReadAsked \/ GcReadFromFile)

\* C34: every read, readinto, readall and seek call of a GzipReader comes to
\* an end, returning or raising, for every input, every initial buffer size
\* (also one smaller than a header or a trailer) and a byte source that
\* stores at least one byte per readinto while bytes remain and 0 after
\* that, be it a single byte each time.
C34_CallsReturn == []<>(gr.pc = "idle")

\* A call has returned data read from a source that gave one byte at a
\* time, into a buffer that started with room for one byte.
C34_Witness ==
    /\ gr.pc = "idle" /\ "style" \in DOMAIN gr /\ gr.style = "one"
    /\ gr.calls = MaxGzCalls /\ gr.last.ok /\ gr.op.api = "readall"
    /\ gr.self.buffer_size > MaxBufferSize /\ gr.last.value # <<>>

\* The last call was a read, readinto or readall that has returned or
\* raised.
ReadDone == gr.pc = "idle" /\ gr.calls > 0 /\ gr.op.api # "seek"

\* C35: after a read has failed with BadGzipFile, zlib_ng.error or EOFError,
\* every later read on the same reader, without a seek in between, fails
\* too: no decompressed bytes are returned after the failure.
C35_ErrorsAreFatal ==
    (ReadDone /\ gr.was_failed) => ~gr.last.ok

\* A read has failed after an earlier one had.
C35_Witness ==
    /\ gr.pc = "idle" /\ "was_failed" \in DOMAIN gr /\ gr.calls = MaxGzCalls
    /\ gr.op.api # "seek" /\ gr.was_failed /\ ~gr.last.ok

\* The last call was a seek that has returned or raised.
SeekDone == gr.pc = "idle" /\ gr.calls > 0 /\ gr.op.api = "seek"

\* The absolute target of the last seek, the stream holding S bytes.
SeekTarget(S) ==
    IF gr.op.whence = SEEK_SET THEN gr.op.n
    ELSE IF gr.op.whence = SEEK_CUR THEN gr.before._pos + gr.op.n
    ELSE S + gr.op.n

Clamp(t, S) == IF t < 0 THEN 0 ELSE IF t > S THEN S ELSE t

\* The reader is now where the last call found it.
Untouched ==
    /\ gr.self.stream_phase = gr.before.stream_phase
    /\ gr.self.current_pos = gr.before.current_pos
    /\ gr.self._pos = gr.before._pos

\* C36: seek(offset, whence) returns the position it leaves the reader at,
\* the absolute target (offset, position + offset or size + offset) brought
\* into [0, S]; a whence that is none of the three raises ValueError and
\* leaves phase, cursor and position as they were.
C36_SeekClamped ==
    SeekDone =>
        IF gr.op.whence \notin {SEEK_SET, SEEK_CUR, SEEK_END}
        THEN gr.last = Raise("ValueError") /\ Untouched
        ELSE /\ gr.last = Return(<<Clamp(SeekTarget(Len(gr.plain)),
                                         Len(gr.plain))>>)
             /\ GzipReader_tell(gr.self) = gr.last.value[1]


(***************************************************************************)
(* The whole life of an object: construction, any calls, disposal.  The    *)
(* codec session of the object counts its releases in "ends".              *)
(***************************************************************************)
\* Mutant: the session is released whether or not it is still initialised.
Comp_dealloc_always(self) == [self EXCEPT !.zst.st = zng_deflateEnd(@)]

\* Comp_dealloc: the disposal of a Compress object.
Comp_dealloc(self) ==
    IF self.is_initialised THEN [self EXCEPT !.zst.st = zng_deflateEnd(@)]
    ELSE self

\* Decomp_dealloc: the disposal of a Decompress object.
Decomp_dealloc(self) ==
    IF self.is_initialised THEN [self EXCEPT !.zst.st = zng_inflateEnd(@)]
    ELSE self

\* ZlibDecompressor_dealloc.
ZlibDecompressor_dealloc(self) ==
    IF self.is_initialised THEN [self EXCEPT !.zst.st = zng_inflateEnd(@)]
    ELSE self

\* ParallelCompress_dealloc; the stream of this object has no wrapper record.
ParallelCompress_dealloc(self) ==
    IF self.is_initialised THEN [self EXCEPT !.zst = zng_deflateEnd(@)]
    ELSE self

\* tp_dealloc of the object's type.
tp_dealloc(kind, self) ==
    CASE kind = "Compress" -> Comp_dealloc(self)
      [] kind = "Decompress" -> Decomp_dealloc(self)
      [] kind = "ZlibDecompressor" -> ZlibDecompressor_dealloc(self)
      [] kind = "ParallelCompress" -> ParallelCompress_dealloc(self)

\* How often the session of the object was released.
SessionEnds(kind, self) ==
    IF kind = "ParallelCompress" THEN self.zst.ends ELSE self.zst.st.ends

InitDispose ==
    \/ InitLifecycle
    \/ \E b \in LifePayloads \ {<<>>}, level \in LevelChoices :
        /\ lc = [pc |-> "run", kind |-> "ParallelCompress",
                 obj |-> ParallelCompress__new__(UINT32_MAX, level).value,
                 rest |-> b, tail |-> 0, data |-> <<>>,
                 calls |-> 0, op |-> "new", before |-> newcompobject,
                 last |-> NoResult, err |-> NoStatus]
        /\ os = Idle /\ ss = Idle /\ zd = Idle /\ gr = Idle /\ lk = Idle
        /\ pz = Idle /\ gp = Idle /\ dc = Idle /\ cp = Idle /\ ab = Idle

\* _ParallelCompress.compress_and_crc(piece, b"").
LifeParallelCompress ==
    /\ lc.pc = "run" /\ lc.kind = "ParallelCompress" /\ lc.calls < MaxCalls
    /\ \E n \in 0..Len(lc.rest) :
         AfterLifeCall("compress_and_crc", n,
                       ParallelCompress_compress_and_crc(lc.obj,
                                                         Take(lc.rest, n),
                                                         <<>>),
                       NoStatus)
    /\ UNCHANGED <<os, ss, zd, gr, lk, pz, gp, dc, cp, ab>>

\* The last reference to the object is dropped.
LifeDealloc ==
    /\ lc.pc = "run"
    /\ lc' = [lc EXCEPT !.pc = "dead", !.obj = tp_dealloc(lc.kind, lc.obj)]
    /\ UNCHANGED <<os, ss, zd, gr, lk, pz, gp, dc, cp, ab>>

NextDispose ==
    \/ LifeCompress
    \/ LifeCompressFlush
    \/ LifeDecompress
    \/ LifeDecompressFlush
    \/ LifeZlibDecompressor
    \/ LifeParallelCompress
    \/ LifeDealloc

SpecDispose == InitDispose /\ [][NextDispose]_vars

\* C37: over the life of a Compress, Decompress, ZlibDecompressor or
\* ParallelCompress object its codec session is released at most once: while
\* the object lives the session has been released exactly when
\* is_initialised is false, and after disposal it has been released exactly
\* once, whether a finalize or the disposal did it.
C37_EndedAtMostOnce ==
    lc.pc \in {"run", "dead"} =>
        LET ends == SessionEnds(lc.kind, lc.obj) IN
        /\ ends <= 1
        /\ lc.pc = "run" => (ends = 1 <=> ~lc.obj.is_initialised)
        /\ lc.pc = "dead" => ends = 1

\* A Compress object that a flush finalized, on which a later call failed,
\* has been disposed of.
C37_Witness ==
    /\ lc.pc = "dead" /\ lc.kind = "Compress" /\ lc.calls >= 2
    /\ ~lc.before.is_initialised /\ ~lc.last.ok
    /\ SessionEnds(lc.kind, lc.obj) = 1

\* An object still initialised when it was disposed of.
C37_WitnessLive ==
    /\ lc.pc = "dead" /\ lc.calls >= 1 /\ lc.obj.is_initialised
    /\ SessionEnds(lc.kind, lc.obj) = 1


(***************************************************************************)
(* Specification SpecGil: the threads of SpecLock with the interpreter     *)
(* lock written out.  lk.gil is the thread that holds the interpreter      *)
(* lock, 0 when it is free.  A thread is "idle" (outside the module,       *)
(* without the interpreter lock), "py" (running interpreter code with it), *)
(* "enter" (blocked in ENTER_ZLIB), "regil" (has the instance lock and     *)
(* waits in Py_END_ALLOW_THREADS of ENTER_ZLIB), "locked" (inside a method *)
(* with both locks), "codec" (inside a codec call) or "back" (the codec    *)
(* call has returned and the thread waits in Py_END_ALLOW_THREADS).        *)
(* chunks counts the codec calls of the method.                            *)
(***************************************************************************)
SessionKinds == {"Compress", "Decompress", "ZlibDecompressor"}

InitGil ==
    \E kind \in SessionKinds :
        /\ lk = [pc |-> "run", kind |-> kind, permits |-> 1,
                 is_initialised |-> TRUE, unpaired |-> FALSE,
                 crashed |-> FALSE, th |-> [t \in Threads |-> IdleThread],
                 gil |-> 0]
        /\ os = Idle /\ ss = Idle /\ zd = Idle /\ gr = Idle /\ lc = Idle
        /\ pz = Idle /\ gp = Idle /\ dc = Idle /\ cp = Idle /\ ab = Idle

GilRuns == lk.pc = "run" /\ "gil" \in DOMAIN lk /\ ~lk.crashed

\* The interpreter lets thread t run.
GilRunBy(t) ==
    /\ GilRuns /\ lk.th[t].pc = "idle" /\ lk.gil = 0
    /\ lk' = [lk EXCEPT !.gil = t, !.th[t].pc = "py"]
    /\ UNCHANGED <<os, ss, zd, gr, lc, pz, gp, dc, cp, ab>>

\* The interpreter takes the interpreter lock from thread t.
GilYieldBy(t) ==
    /\ GilRuns /\ lk.th[t].pc = "py"
    /\ lk' = [lk EXCEPT !.gil = 0, !.th[t].pc = "idle"]
    /\ UNCHANGED <<os, ss, zd, gr, lc, pz, gp, dc, cp, ab>>

\* ENTER_ZLIB by a running thread: PyThread_acquire_lock(lock, 0), and when
\* the lock is taken Py_BEGIN_ALLOW_THREADS before the blocking acquire.
ENTER_ZLIB_running(l, t) ==
    LET x == ENTER_ZLIB(l, t) IN
    IF x.th[t].holds THEN [x EXCEPT !.th[t].pc = "locked"]
    ELSE [x EXCEPT !.gil = 0]

\* Thread t calls method m and runs to the end of ENTER_ZLIB, or to the
\* return of a copy() of a flushed Compress, which leaves without entering.
GilCallBy(t) ==
    /\ GilRuns /\ lk.th[t].pc = "py"
    /\ \E m \in Methods(lk.kind) :
          /\ ~ReturnsEarly(lk.kind, m)
          /\ IF lk.kind = "Compress" /\ m.op = "copy" /\ ~lk.is_initialised
             THEN lk' \in LEAVE_ZLIB(lk, t)
             ELSE lk' = ENTER_ZLIB_running(
                            [lk EXCEPT !.th[t] =
                                [pc |-> "py", op |-> m.op, arg |-> m.arg,
                                 holds |-> FALSE, chunks |-> 0]], t)
    /\ UNCHANGED <<os, ss, zd, gr, lc, pz, gp, dc, cp, ab>>

\* The blocking PyThread_acquire_lock(lock, 1) of thread t returns.
GilAcquireBy(t) ==
    /\ GilRuns /\ lk.th[t].pc = "enter" /\ lk.permits > 0
    /\ lk' = [ENTER_ZLIB(lk, t) EXCEPT !.th[t].pc = "regil"]
    /\ UNCHANGED <<os, ss, zd, gr, lc, pz, gp, dc, cp, ab>>

\* Py_BEGIN_ALLOW_THREADS by thread t.
Py_BEGIN_ALLOW_THREADS(l, t) == [l EXCEPT !.gil = 0]

\* Py_END_ALLOW_THREADS: thread t has the interpreter lock again.
GilResumeBy(t) ==
    /\ GilRuns /\ lk.th[t].pc \in {"regil", "back"} /\ lk.gil = 0
    /\ lk' = [lk EXCEPT !.gil = t, !.th[t].pc = "locked"]
    /\ UNCHANGED <<os, ss, zd, gr, lc, pz, gp, dc, cp, ab>>

\* Thread t, inside a method with both locks, starts a codec call.  copy()
\* makes none.
GilCodecBy(t) ==
    /\ GilRuns /\ lk.th[t].pc = "locked"
    /\ lk.th[t].op # "copy" /\ lk.th[t].chunks < MaxChunks
    /\ lk' = Py_BEGIN_ALLOW_THREADS([lk EXCEPT !.th[t].pc = "codec",
                                               !.th[t].chunks = @ + 1], t)
    /\ UNCHANGED <<os, ss, zd, gr, lc, pz, gp, dc, cp, ab>>

\* The codec call of thread t returns.
GilCodecReturnBy(t) ==
    /\ GilRuns /\ lk.th[t].pc = "codec"
    /\ lk' = [lk EXCEPT !.th[t].pc = "back"]
    /\ UNCHANGED <<os, ss, zd, gr, lc, pz, gp, dc, cp, ab>>

\* Thread t leaves the method: LEAVE_ZLIB and the return.  A method other
\* than copy() and ZlibDecompressor.decompress (which fails at once after
\* eof) has made a codec call before.
GilLeaveBy(t) ==
    /\ GilRuns /\ lk.th[t].pc = "locked"
    /\ \/ lk.th[t].op = "copy"
       \/ lk.kind = "ZlibDecompressor"
       \/ lk.th[t].chunks >= 1
    /\ \E ended \in BOOLEAN :
          lk' \in {[x EXCEPT !.th[t].pc = "py"] :
                      x \in FinishMethod(lk, t, ended, FALSE)}
    /\ UNCHANGED <<os, ss, zd, gr, lc, pz, gp, dc, cp, ab>>

GilRun == \E t \in Threads : GilRunBy(t)
GilYield == \E t \in Threads : GilYieldBy(t)
GilCall == \E t \in Threads : GilCallBy(t)
GilAcquire == \E t \in Threads : GilAcquireBy(t)
GilResume == \E t \in Threads : GilResumeBy(t)
GilCodec == \E t \in Threads : GilCodecBy(t)
GilCodecReturn == \E t \in Threads : GilCodecReturnBy(t)
GilLeave == \E t \in Threads : GilLeaveBy(t)

NextGil ==
    \/ GilRun
    \/ GilYield
    \/ GilCall
    \/ GilAcquire
    \/ GilResume
    \/ GilCodec
    \/ GilCodecReturn
    \/ GilLeave

SpecGil == InitGil /\ [][NextGil]_vars

\* Fair scheduling: a running thread goes on, a codec call returns, and a
\* thread that waits for a lock gets it when the lock is free again and
\* again.
SpecGilFair ==
    /\ SpecGil
    /\ \A t \in Threads :
          /\ WF_vars(GilYieldBy(t))
          /\ WF_vars(GilCodecBy(t) \/ GilLeaveBy(t))
          /\ WF_vars(GilCodecReturnBy(t))
          /\ SF_vars(GilAcquireBy(t))
          /\ SF_vars(GilResumeBy(t))

\* A thread blocked on the instance lock does not hold the interpreter
\* lock; a thread inside a codec call does not hold it either and has the
\* instance lock, which is taken.
GilSafe ==
    "gil" \in DOMAIN lk =>
        \A t \in Threads :
            /\ lk.th[t].pc = "enter" => lk.gil # t
            /\ lk.th[t].pc = "codec" =>
                   lk.gil # t /\ lk.th[t].holds /\ lk.permits = 0

\* C38: no deadlock between the interpreter lock and the instance lock: a
\* thread waiting for the instance lock does not hold the interpreter lock,
\* a thread inside a codec call has released the interpreter lock and keeps
\* the instance lock, and under fair scheduling every acquired instance
\* lock is released and every waiting caller proceeds.
C38_NoDeadlock ==
    /\ []GilSafe
    /\ \A t \in Threads :
          /\ lk.th[t].holds ~> ~lk.th[t].holds
          /\ (lk.th[t].pc = "enter") ~> (lk.th[t].pc # "enter")


(***************************************************************************)
(* Specification SpecBuffer: the calls of ZlibDecompressor.decompress on   *)
(* one object with allocations that may fail.  lc.mem names the memory     *)
(* zst.next_in points into after a call: "input_buffer", the "data" of the *)
(* caller (which the caller releases after the call) or "none" for NULL.   *)
(***************************************************************************)
\* decompress with the answers of the allocators: realloc_ok for the
\* PyMem_Realloc that grows the input buffer, bytes_ok for the first
\* allocation of the output, malloc_ok for the PyMem_Malloc of a new input
\* buffer.  The result is [self, res, mem].
decompress_alloc(self, data, max_length, realloc_ok, bytes_ok, malloc_ok) ==
    LET input_buffer_in_use == self.zst.next_in # NULL
        avail_total == self.input_buffer_size - self.avail_in_real
    IN
    IF input_buffer_in_use /\ avail_total < Len(data) /\ ~realloc_ok
    THEN [self |-> self, res |-> Raise("MemoryError"), mem |-> "input_buffer"]
    ELSE
    Let(IF input_buffer_in_use
        THEN prepend_unconsumed_input(self, data)
        ELSE [self EXCEPT !.zst.next_in = 0, !.avail_in_real = Len(data)],
        LAMBDA s1 :
    IF ~bytes_ok
    THEN Let(arrange_input_buffer(s1.zst, s1.avail_in_real), LAMBDA ai :
             [self |-> [s1 EXCEPT !.zst = [ai.zst EXCEPT !.next_in = NULL],
                                  !.avail_in_real = ai.remains],
              res |-> Raise("MemoryError"), mem |-> "none"])
    ELSE
    Let(decompress_buf(s1, IF input_buffer_in_use THEN s1.input_buffer
                           ELSE data, max_length), LAMBDA r :
    IF ~r.res.ok
    THEN [self |-> [r.self EXCEPT !.zst.next_in = NULL], res |-> r.res,
          mem |-> "none"]
    ELSE IF /\ ~r.self.eof /\ r.self.avail_in_real > 0
            /\ ~input_buffer_in_use
            /\ \/ r.self.input_buffer = NoBuffer
               \/ r.self.input_buffer_size < r.self.avail_in_real
            /\ ~malloc_ok
    THEN [self |-> [r.self EXCEPT !.needs_input = FALSE,
                                  !.input_buffer = NoBuffer],
          res |-> Raise("MemoryError"), mem |-> "data"]
    ELSE Let(after_decompress_buf(r.self,
                                  IF input_buffer_in_use THEN s1.input_buffer
                                  ELSE data, input_buffer_in_use),
             LAMBDA s2 :
             [self |-> s2, res |-> r.res,
              mem |-> IF s2.zst.next_in = NULL THEN "none"
                      ELSE IF input_buffer_in_use \/ ~s2.eof
                      THEN "input_buffer" ELSE "data"])))

\* Most allocations that fail in the life of one object.
MaxFailed == 1

InitBuffer ==
    \E s \in LifeStreams :
        /\ lc = [pc |-> "run", kind |-> "ZlibDecompressor",
                 obj |-> ZlibDecompressor__new__(s.wbits, NoZdict),
                 rest |-> s.data, tail |-> s.tail, data |-> <<>>,
                 calls |-> 0, op |-> "new",
                 before |-> newcompobject, last |-> NoResult,
                 err |-> NoStatus, mem |-> "none", failed |-> 0]
        /\ os = Idle /\ ss = Idle /\ zd = Idle /\ gr = Idle /\ lk = Idle
        /\ pz = Idle /\ gp = Idle /\ dc = Idle /\ cp = Idle /\ ab = Idle

\* decompress is entered with next_in pointing into the object's own input
\* buffer, or NULL.
BufferOwned ==
    /\ lc.pc = "run" /\ "mem" \in DOMAIN lc
    /\ ~lc.obj.eof
    /\ lc.mem # "data"

\* ZlibDecompressor.decompress(piece, max_length), max_length being -1 or 1.
BufDecompress ==
    /\ lc.pc = "run" /\ "mem" \in DOMAIN lc /\ lc.calls < MaxCalls
    /\ lc.obj.eof \/ lc.mem # "data"
    /\ \E n \in 0..Len(lc.rest), max_length \in {-1, 1},
          realloc_ok \in BOOLEAN, bytes_ok \in BOOLEAN, malloc_ok \in BOOLEAN :
         /\ lc.failed < MaxFailed \/ (realloc_ok /\ bytes_ok /\ malloc_ok)
         /\ Let(IF lc.obj.eof
             THEN [self |-> lc.obj, res |-> Raise("EOFError"),
                   mem |-> lc.mem]
             ELSE decompress_alloc(lc.obj, Take(lc.rest, n), max_length,
                                   realloc_ok, bytes_ok, malloc_ok),
             LAMBDA r :
            lc' = [lc EXCEPT !.obj = r.self, !.rest = Drop(@, n),
                             !.calls = @ + 1, !.data = Take(lc.rest, n),
                             !.op = "decompress", !.before = lc.obj,
                             !.last = r.res, !.mem = r.mem,
                             !.failed = IF r.res.exc = "MemoryError"
                                        THEN @ + 1 ELSE @])
    /\ UNCHANGED <<os, ss, zd, gr, lk, pz, gp, dc, cp, ab>>

\* decompress is entered with next_in pointing into the data of an earlier
\* call: it reads, and writes to, memory that is not the object's.
BufDangling ==
    /\ lc.pc = "run" /\ "mem" \in DOMAIN lc /\ lc.calls < MaxCalls
    /\ ~lc.obj.eof /\ lc.mem = "data"
    /\ lc' = [lc EXCEPT !.pc = "undefined", !.calls = @ + 1]
    /\ UNCHANGED <<os, ss, zd, gr, lk, pz, gp, dc, cp, ab>>

NextBuffer == BufDecompress \/ BufDangling

SpecBuffer == InitBuffer /\ [][NextBuffer]_vars

\* The pending input of self lies inside the input buffer, whose size is
\* input_buffer_size.
PendingInside(self) ==
    /\ Len(self.input_buffer) = self.input_buffer_size
    /\ self.zst.next_in + self.avail_in_real <= self.input_buffer_size

\* C39: after any calls of ZlibDecompressor.decompress, failed ones
\* included, whenever next_in is not NULL when decompress is entered the
\* pending input lies inside the object's input buffer, and so does the
\* pending input with the new data appended to it, in place, after
\* compaction or after the buffer was grown.
C39_PendingInsideBuffer ==
    (/\ lc.pc = "run" /\ "mem" \in DOMAIN lc
     /\ ~lc.obj.eof /\ lc.obj.zst.next_in # NULL) =>
        /\ lc.mem = "input_buffer"
        /\ PendingInside(lc.obj)
        /\ \A n \in 0..Len(lc.rest) :
              PendingInside(prepend_unconsumed_input(lc.obj,
                                                     Take(lc.rest, n)))

====
